---- MODULE Spec2Model ----
(***************************************************************************)
(* Model of transform_logs.py: line parsing (JSON and Apache formats),     *)
(* file ingestion in prefix and sample mode, bot classification, bot       *)
(* filtering, session derivation, session statistics and log statistics,   *)
(* and of load_data of streamlit_app.py, which chooses the ingestion mode.  *)
(*                                                                         *)
(* A DataFrame is a record [columns, rows]: `columns` is the set of column *)
(* labels and `rows` the sequence of rows in table order.  A row is a      *)
(* function from column labels to values, plus the label "index" holding   *)
(* the row's DataFrame index.  Timestamps are whole seconds counted from   *)
(* 10:00:00 of the first day; None/NaT/NaN are the empty tuple and a       *)
(* present value v is <<v>> wherever a column is nullable.  The parsers    *)
(* work on strings character by character and return datetimes as records  *)
(* [year, month, day, hour, minute, second, tz], tz being the offset in    *)
(* minutes or None for a naive datetime.                                   *)
(***************************************************************************)
EXTENDS Integers, Sequences, FiniteSets, TLC

VARIABLES
    df,          \* the table the next pipeline step receives
    src,         \* the table as it was loaded
    timeout,     \* session_timeout_minutes
    exclude,     \* exclude_bots
    removed,     \* second component of filter_bots' result
    prev,        \* the table the last derivation call received, as the call left it
    stats,       \* result of get_session_stats or get_log_stats ({} is the empty function)
    applied,     \* number of create_sessions calls so far
    agent,       \* the user agent last given to is_bot_user_agent
    verdict,     \* what is_bot_user_agent returned for it
    parts,       \* the fields the line given to parse_log_to_dict was written from
    input,       \* raw_line, the text given to parse_log_to_dict
    clock,       \* what datetime.now() returns during the call
    extracted,   \* what extract_json_block returned for the line
    route,       \* the parser the line was handed to
    parsed,      \* what parse_log_to_dict returned
    file,        \* the log file: its lines and whether opening or reading it fails
    mode,        \* "prefix" for crear_dataframe, "sample" for crear_dataframe_sample
    max_lines,   \* crear_dataframe's max_lines (None when not given)
    chunk_size,  \* crear_dataframe's chunk_size
    sample_size, \* crear_dataframe_sample's sample_size (None when None was passed)
    progress_callback,  \* whether a progress callback was given
    line_num,    \* index of the line the loop is about to read
    datos,       \* records moved to the result list
    chunk_datos, \* records of the current chunk
    errores,     \* lines that failed to parse
    lineas_procesadas,  \* lines that went through the loop body
    lineas_exitosas,    \* lines that gave a record
    parsed_lines,       \* indices of the lines given to parse_log_to_dict, in call order
    calls,       \* the (fraction, processed) pairs given to the progress callback
    total_lines, \* crear_dataframe_sample's estimate of the line count
    sample_set,  \* the indices drawn for the sample that lie below the line count
    drawn,       \* len(sample_set): the number of indices drawn
    opened,      \* whether open() was called on the file
    loaded,      \* load_data's arguments, None when it was not the caller
    retval,      \* the (table, errors) pair returned, None while there is none
    ended,       \* how the call ended
    pc           \* last step taken

sessionVars == <<timeout, prev, stats, applied>>

botVars == <<exclude, removed, agent, verdict>>

parseVars == <<parts, input, clock, extracted, route, parsed>>

callVars == <<file, mode, max_lines, chunk_size, sample_size, progress_callback>>

loopVars ==
    <<line_num, datos, chunk_datos, errores, lineas_procesadas, lineas_exitosas,
      parsed_lines, calls>>

sampleVars == <<total_lines, sample_set, drawn>>

ingestVars == <<callVars, loopVars, sampleVars, opened, loaded, retval, ended>>

vars == <<df, src, sessionVars, botVars, parseVars, ingestVars, pc>>

------------------------------------------------------------------------------
(* Bounds and input domains *)

MaxRows == 3

MaxApplied == 2

\* ip values in the lexicographic order pandas gives the categories; the
\* second is the first with "_1" after it, which is the session_id of the
\* first one's first session
IPOrder == <<"10.0.0.1", "10.0.0.1_1", "203.0.113.5">>

IPs == {IPOrder[i] : i \in 1..Len(IPOrder)}

\* 10:00:00, 10:20:00, 10:30:00, 10:45:00
Times == {0, 1200, 1800, 2700}

Timeouts == {20, 30}

SecondsPerMinute == 60

SecondsPerDay == 86400

None == <<>>

Some(v) == <<v>>

EmptyDict == <<>>

\* no ingestion call has been made
IngestIdle ==
    /\ file = <<>>
    /\ mode = ""
    /\ max_lines = <<>>
    /\ chunk_size = 0
    /\ sample_size = <<>>
    /\ progress_callback = FALSE
    /\ line_num = 0
    /\ datos = <<>>
    /\ chunk_datos = <<>>
    /\ errores = 0
    /\ lineas_procesadas = 0
    /\ lineas_exitosas = 0
    /\ parsed_lines = <<>>
    /\ calls = <<>>
    /\ total_lines = 0
    /\ sample_set = {}
    /\ drawn = 0
    /\ opened = FALSE
    /\ loaded = <<>>
    /\ retval = <<>>
    /\ ended = ""

\* no line has been given to parse_log_to_dict
ParserIdle ==
    /\ parts = <<>>
    /\ input = ""
    /\ clock = <<>>
    /\ extracted = <<>>
    /\ route = ""
    /\ parsed = <<>>

------------------------------------------------------------------------------
(* Tables *)

BaseColumns == {"timestamp", "date", "ip", "user_agent"}

\* pd.DataFrame(): no columns, no rows
EmptyDataFrame == [columns |-> {}, rows |-> <<>>]

\* df.empty
IsEmpty(d) == d.columns = {} \/ Len(d.rows) = 0

DateOf(ts) == ts \div SecondsPerDay

\* one parsed record as a table row
Record(i, ip, ts, ua) ==
    [index |-> i, timestamp |-> ts, date |-> DateOf(ts), ip |-> ip, user_agent |-> ua]

\* row with column c set to v (added when missing, overwritten otherwise)
SetColumn(r, c, v) == [k \in (DOMAIN r) \cup {c} |-> IF k = c THEN v ELSE r[k]]

IpRank(ip) == CHOOSE i \in 1..Len(IPOrder) : IPOrder[i] = ip

\* KeyLE as it would be had the sort been given ['ip'] only
KeyLE_IpOnly(a, b) == IpRank(a.ip) <= IpRank(b.ip)

\* (ip, timestamp) of a is not after that of b
KeyLE(a, b) ==
    \/ IpRank(a.ip) < IpRank(b.ip)
    \/ a.ip = b.ip /\ a.timestamp <= b.timestamp

RECURSIVE InsertStable(_, _)
\* r placed after every row of the sorted sequence s whose key is not after r's
InsertStable(r, s) ==
    IF s = <<>> THEN <<r>>
    ELSE IF KeyLE(Head(s), r) THEN <<Head(s)>> \o InsertStable(r, Tail(s))
    ELSE <<r>> \o s

RECURSIVE SortRows(_)
\* stable sort of rows by (ip, timestamp)
SortRows(rows) ==
    IF rows = <<>> THEN <<>>
    ELSE InsertStable(rows[Len(rows)], SortRows(SubSeq(rows, 1, Len(rows) - 1)))

\* df.sort_values(['ip', 'timestamp']).copy()
SortValues(d) == [columns |-> d.columns, rows |-> SortRows(d.rows)]

------------------------------------------------------------------------------
(* create_sessions *)

Max(S) == CHOOSE x \in S : \A y \in S : y <= x

Min(S) == CHOOSE x \in S : \A y \in S : x <= y

\* position of the previous row of the same ip in table order, 0 when none
PrevSameIp(rows, i) ==
    LET before == {j \in 1..(i - 1) : rows[j].ip = rows[i].ip}
    IN  IF before = {} THEN 0 ELSE Max(before)

\* groupby('ip')['timestamp'].diff() at position i: NaT for the group's first row
TimeDiff(rows, i) ==
    LET j == PrevSameIp(rows, i)
    IN  IF j = 0 THEN None ELSE Some(rows[i].timestamp - rows[j].timestamp)

\* pd.Timedelta(minutes=session_timeout_minutes), in seconds
Timedelta(minutes) == minutes * SecondsPerMinute

\* IsNewSession with >= in place of >
IsNewSession_AtTimeout(diff, t) ==
    IF diff = None THEN TRUE ELSE diff[1] >= Timedelta(t)

\* time_diff.isna() | (time_diff > timeout); NaT > timeout is False
IsNewSession(diff, t) ==
    IF diff = None THEN TRUE ELSE diff[1] > Timedelta(t)

\* new_session.cumsum() over the whole table, not by ip
CumSum_Ungrouped(rows, i) ==
    Cardinality({j \in 1..i : rows[j].new_session})

\* groupby('ip')['new_session'].cumsum() at position i
CumSum(rows, i) ==
    Cardinality({j \in 1..i : rows[j].ip = rows[i].ip /\ rows[j].new_session})

\* SessionId without the ip prefix
SessionId_SeqOnly(ip, seq) == ToString(seq)

\* ip.astype(str) + '_' + seq.astype(str)
SessionId(ip, seq) == ip \o "_" \o ToString(seq)

\* df[c] = values: row i gets values[i] in column c
Assign(d, c, values) ==
    [columns |-> d.columns \cup {c},
     rows    |-> [i \in 1..Len(d.rows) |-> SetColumn(d.rows[i], c, values[i])]]

WithTimeDiff(d) ==
    Assign(d, "time_diff", [i \in 1..Len(d.rows) |-> TimeDiff(d.rows, i)])

WithNewSession(d, t) ==
    Assign(d, "new_session",
           [i \in 1..Len(d.rows) |-> IsNewSession(d.rows[i].time_diff, t)])

WithSessionSeq(d) ==
    Assign(d, "session_id", [i \in 1..Len(d.rows) |-> CumSum(d.rows, i)])

WithSessionId(d) ==
    Assign(d, "session_id",
           [i \in 1..Len(d.rows) |-> SessionId(d.rows[i].ip, d.rows[i].session_id)])

\* create_sessions returning df in place of df_sorted
create_sessions_ReturnsInput(d, t) == d

\* create_sessions taking time_diff from df in place of df_sorted: the values
\* are those of the input order, aligned to the sorted rows by index
create_sessions_DiffOfInput(d, t) ==
    IF IsEmpty(d) THEN d
    ELSE LET at(x) == CHOOSE j \in 1..Len(d.rows) : d.rows[j].index = x
             sorted == SortValues(d)
             diffOfInput ==
                 [i \in 1..Len(sorted.rows) |-> TimeDiff(d.rows, at(sorted.rows[i].index))]
         IN  WithSessionId(WithSessionSeq(WithNewSession(
                 Assign(sorted, "time_diff", diffOfInput), t)))

\* create_sessions(df, session_timeout_minutes)
create_sessions(d, t) ==
    IF IsEmpty(d) THEN d
    ELSE WithSessionId(WithSessionSeq(WithNewSession(WithTimeDiff(SortValues(d)), t)))

------------------------------------------------------------------------------
(* get_session_stats *)

RECURSIVE SumOver(_, _)
\* sum of f[x] over x in S
SumOver(f, S) ==
    IF S = {} THEN 0
    ELSE LET x == CHOOSE y \in S : TRUE
         IN  f[x] + SumOver(f, S \ {x})

\* positions of the rows of one group, in table order
GroupRows(d, sid) == {i \in 1..Len(d.rows) : d.rows[i].session_id = sid}

\* TotalMinutes without the division by 60
TotalMinutes_Seconds(seconds) == [whole |-> seconds, sixtieths |-> 0]

\* Timedelta.total_seconds() / 60: whole minutes and the remaining sixtieths
TotalMinutes(seconds) ==
    [whole |-> seconds \div SecondsPerMinute, sixtieths |-> seconds % SecondsPerMinute]

\* SessionRow with 'nunique' in place of 'count'
SessionRow_Nunique(d, sid) ==
    LET g     == GroupRows(d, sid)
        first == d.rows[Min(g)]
        start == Min({d.rows[i].timestamp : i \in g})
        end   == Max({d.rows[i].timestamp : i \in g})
    IN  [session_id       |-> sid,
         session_start    |-> start,
         session_end      |-> end,
         pageviews        |-> Cardinality({d.rows[i].timestamp : i \in g}),
         ip               |-> first.ip,
         date             |-> first.date,
         session_duration |-> TotalMinutes(end - start)]

\* one line of groupby('session_id').agg(...) with session_duration added
SessionRow(d, sid) ==
    LET g     == GroupRows(d, sid)
        first == d.rows[Min(g)]
        start == Min({d.rows[i].timestamp : i \in g})
        end   == Max({d.rows[i].timestamp : i \in g})
    IN  [session_id       |-> sid,
         session_start    |-> start,
         session_end      |-> end,
         pageviews        |-> Cardinality(g),
         ip               |-> first.ip,
         date             |-> first.date,
         session_duration |-> TotalMinutes(end - start)]

\* the session_stats frame, keyed by session_id
SessionDetails(d) ==
    [sid \in {d.rows[i].session_id : i \in 1..Len(d.rows)} |-> SessionRow(d, sid)]

\* Series.mean(): the sum and the number of terms
Mean(f, S) == [sum |-> SumOver(f, S), n |-> Cardinality(S)]

\* get_session_stats(df_with_sessions)
get_session_stats(d) ==
    IF IsEmpty(d) \/ "session_id" \notin d.columns THEN EmptyDict
    ELSE LET details == SessionDetails(d)
             sids    == DOMAIN details
             dates   == {details[s].date : s \in sids}
         IN  [total_sessions               |-> Cardinality(sids),
              unique_users                 |-> Cardinality({details[s].ip : s \in sids}),
              avg_pageviews_per_session    |-> Mean([s \in sids |-> details[s].pageviews], sids),
              avg_session_duration_minutes |->
                  Mean([s \in sids |-> details[s].session_end - details[s].session_start], sids),
              sessions_by_date             |->
                  [dt \in dates |-> Cardinality({s \in sids : details[s].date = dt})],
              session_details              |-> details]

------------------------------------------------------------------------------
(* is_bot_user_agent and filter_bots *)

UpperLetters == "ABCDEFGHIJKLMNOPQRSTUVWXYZ"

LowerLetters == "abcdefghijklmnopqrstuvwxyz"

CharAt(s, i) == SubSeq(s, i, i)

\* position of the character c in the string letters
LetterIndex(letters, c) == CHOOSE i \in 1..Len(letters) : CharAt(letters, i) = c

Letters(letters) == {CharAt(letters, i) : i \in 1..Len(letters)}

\* the lower-case letter of every upper-case letter
LowerMap ==
    [c \in Letters(UpperLetters) |-> CharAt(LowerLetters, LetterIndex(UpperLetters, c))]

\* the character c as str.lower() leaves it
LowerChar(c) == IF c \in DOMAIN LowerMap THEN LowerMap[c] ELSE c

RECURSIVE LowerFrom(_, _)
LowerFrom(s, i) ==
    IF i > Len(s) THEN "" ELSE LowerChar(CharAt(s, i)) \o LowerFrom(s, i + 1)

\* str(user_agent).lower()
Lower(s) == LowerFrom(s, 1)

\* pattern in s
Contains(s, p) ==
    \E i \in 1..(Len(s) - Len(p) + 1) : SubSeq(s, i, i + Len(p) - 1) = p

bot_patterns ==
    << "googlebot", "bingbot", "slurp", "duckduckbot", "baiduspider",
       "yandexbot", "facebookexternalhit", "twitterbot", "linkedinbot",
       "whatsapp", "telegram", "crawler", "spider", "scraper",
       "bot", "crawl", "fetch", "monitor", "check", "test",
       "pingdom", "uptime", "robot", "wget", "curl",
       "python-requests", "scrapy", "selenium", "phantomjs",
       "headless", "apache-httpclient", "java/", "go-http-client" >>

\* is_bot_user_agent matching the patterns against user_agent as given
is_bot_user_agent_CaseSensitive(ua) ==
    IF ua = None THEN FALSE
    ELSE IF ua[1] = "" \/ ua[1] = "-" THEN FALSE
    ELSE \E i \in 1..Len(bot_patterns) : Contains(ua[1], bot_patterns[i])

\* is_bot_user_agent(user_agent); user_agent is None or Some(string)
is_bot_user_agent(ua) ==
    IF ua = None THEN FALSE
    ELSE IF ua[1] = "" \/ ua[1] = "-" THEN FALSE
    ELSE LET user_agent_lower == Lower(ua[1])
         IN  \E i \in 1..Len(bot_patterns) : Contains(user_agent_lower, bot_patterns[i])

\* df['user_agent'].apply(is_bot_user_agent)
BotMask(d) == [i \in 1..Len(d.rows) |-> is_bot_user_agent(d.rows[i].user_agent)]

RECURSIVE Keep(_, _, _)
\* rows[i..] whose mask entry is True, in table order
Keep(rows, mask, i) ==
    IF i > Len(rows) THEN <<>>
    ELSE (IF mask[i] THEN <<rows[i]>> ELSE <<>>) \o Keep(rows, mask, i + 1)

\* df[mask].copy()
Select(d, mask) == [columns |-> d.columns, rows |-> Keep(d.rows, mask, 1)]

\* mask.sum()
MaskSum(mask) == Cardinality({i \in DOMAIN mask : mask[i]})

\* filter_bots filtering whatever exclude_bots says
filter_bots_IgnoresFlag(d, exclude_bots) ==
    IF "user_agent" \in d.columns
    THEN LET bot_mask == BotMask(d)
         IN  <<Select(d, [i \in DOMAIN bot_mask |-> ~bot_mask[i]]), MaskSum(bot_mask)>>
    ELSE <<d, 0>>

\* filter_bots selecting df[bot_mask] in place of df[~bot_mask]
filter_bots_KeepsBots(d, exclude_bots) ==
    IF exclude_bots /\ "user_agent" \in d.columns
    THEN LET bot_mask == BotMask(d)
         IN  <<Select(d, bot_mask), MaskSum(bot_mask)>>
    ELSE <<d, 0>>

\* filter_bots(df, exclude_bots): the pair (table, number of bots)
filter_bots(d, exclude_bots) ==
    IF exclude_bots /\ "user_agent" \in d.columns
    THEN LET bot_mask == BotMask(d)
         IN  <<Select(d, [i \in DOMAIN bot_mask |-> ~bot_mask[i]]), MaskSum(bot_mask)>>
    ELSE <<d, 0>>

------------------------------------------------------------------------------
(* The session pipeline of comparar_periodos: create_sessions, then         *)
(* get_session_stats, on a table drawn from the bounded domain.             *)

\* the table of the records f[1], f[2], ..., indexed 0..n-1 as
\* pd.DataFrame(datos) numbers them; f[i] is the (ip, timestamp) of record i
TableOf(f) ==
    [columns |-> BaseColumns,
     rows    |-> [i \in DOMAIN f |-> Record(i - 1, f[i][1], f[i][2], None)]]

Init ==
    /\ \/ df = EmptyDataFrame
       \/ \E n \in 0..MaxRows : \E f \in [1..n -> IPs \X Times] : df = TableOf(f)
    /\ src = df
    /\ timeout \in Timeouts
    /\ exclude = TRUE
    /\ removed = 0
    /\ agent = None
    /\ verdict = FALSE
    /\ prev = EmptyDataFrame
    /\ stats = EmptyDict
    /\ applied = 0
    /\ ParserIdle
    /\ IngestIdle
    /\ pc = "loaded"

CreateSessions ==
    /\ pc # "stats"
    /\ applied < MaxApplied
    /\ prev' = df
    /\ df' = create_sessions(df, timeout)
    /\ applied' = applied + 1
    /\ pc' = "sessions"
    /\ UNCHANGED <<src, timeout, stats, botVars, parseVars, ingestVars>>

GetSessionStats ==
    /\ pc # "stats"
    /\ stats' = get_session_stats(df)
    /\ pc' = "stats"
    /\ UNCHANGED <<df, src, timeout, prev, applied, botVars, parseVars, ingestVars>>

Next == CreateSessions \/ GetSessionStats

Spec == Init /\ [][Next]_vars

------------------------------------------------------------------------------
(* Properties of the session pipeline *)

RowCount(d) == Len(d.rows)

Positions(d) == 1..Len(d.rows)

\* the sessions table that get_session_stats was given to report on
Sessionised == pc = "stats" /\ applied >= 1 /\ ~IsEmpty(src)

\* create_sessions has returned a table with sessions
Annotated == applied >= 1 /\ ~IsEmpty(src)

Details == stats.session_details

\* C1: for a non-empty table, after create_sessions and get_session_stats the
\* pageviews of all sessions add up to the number of input rows; every input
\* row is in the output exactly once and belongs to a reported session.
C1_PageviewsSumToRows ==
    Sessionised =>
        /\ "session_details" \in DOMAIN stats
        /\ SumOver([s \in DOMAIN Details |-> Details[s].pageviews], DOMAIN Details)
               = RowCount(src)
        /\ RowCount(df) = RowCount(src)
        /\ \A k \in Positions(src) :
               Cardinality({i \in Positions(df) : df.rows[i].index = src.rows[k].index}) = 1
        /\ \A i \in Positions(df) : df.rows[i].session_id \in DOMAIN Details

C1_Witness ==
    /\ Sessionised
    /\ RowCount(src) = 3
    /\ stats.total_sessions = 2

\* row i of d opens a session: no earlier row carries its session_id
FirstOfSession(d, i) ==
    \A j \in 1..(i - 1) : d.rows[j].session_id # d.rows[i].session_id

\* row i of d has no predecessor of the same ip in (ip, timestamp) order
FirstOfIp(d, i) == i = 1 \/ d.rows[i - 1].ip # d.rows[i].ip

Gap(d, i) == d.rows[i].timestamp - d.rows[i - 1].timestamp

SortedByIpTime(d) ==
    \A i, j \in Positions(d) : i < j => KeyLE(d.rows[i], d.rows[j])

\* C2: in the output of create_sessions, which is in (ip, timestamp) order, a
\* row opens a session exactly when it is the first row of its ip or its gap
\* to the previous row of that ip is strictly greater than the timeout; a gap
\* equal to the timeout keeps the session; 10:00:00 and 10:45:00 with timeout
\* 30 are two sessions.
C2_SessionStartRule ==
    Annotated =>
        /\ SortedByIpTime(df)
        /\ \A i \in Positions(df) :
               FirstOfSession(df, i) <=>
                   (FirstOfIp(df, i) \/ Gap(df, i) > timeout * SecondsPerMinute)
        /\ \A i \in Positions(df) :
               (~FirstOfIp(df, i) /\ Gap(df, i) <= timeout * SecondsPerMinute)
                   => df.rows[i].session_id = df.rows[i - 1].session_id
        /\ (/\ timeout = 30
            /\ RowCount(src) = 2
            /\ src.rows[1].ip = src.rows[2].ip
            /\ {src.rows[1].timestamp, src.rows[2].timestamp} = {0, 2700})
               => Cardinality({df.rows[i].session_id : i \in Positions(df)}) = 2

C2_Witness ==
    /\ Annotated
    /\ RowCount(df) = 3
    /\ ~FirstOfIp(df, 2) /\ Gap(df, 2) = timeout * SecondsPerMinute
    /\ df.rows[2].session_id = df.rows[1].session_id
    /\ ~FirstOfIp(df, 3) /\ Gap(df, 3) > timeout * SecondsPerMinute
    /\ df.rows[3].session_id # df.rows[2].session_id

\* rows of d in session number k of ip
SessionOf(d, ip, k) ==
    {i \in Positions(d) : d.rows[i].ip = ip /\ d.rows[i].session_id = SessionId(ip, k)}

TimesOf(d, g) == {d.rows[i].timestamp : i \in g}

\* C3: sessions k and k+1 of one ip do not overlap and are in start order:
\* the latest timestamp of session k is strictly before the earliest of k+1.
C3_SessionsDisjointInTime ==
    Annotated =>
        \A ip \in IPs : \A k \in 1..RowCount(df) :
            LET a == SessionOf(df, ip, k)
                b == SessionOf(df, ip, k + 1)
            IN  (a # {} /\ b # {}) => Max(TimesOf(df, a)) < Min(TimesOf(df, b))

C3_Witness ==
    /\ Annotated
    /\ \E ip \in IPs :
           /\ Cardinality(SessionOf(df, ip, 1)) = 2
           /\ SessionOf(df, ip, 2) # {}
           /\ src.rows[1].ip = ip
           /\ src.rows[1].timestamp = Max(TimesOf(src, Positions(src)))

\* C4: per session_id, session_start is the least and session_end the greatest
\* timestamp of the session's rows, pageviews their number, session_duration
\* the difference in minutes (0 for one row); 10:00:00 and 10:20:00 of one ip
\* with timeout 30 are one session of 2 pageviews lasting 20 minutes.
C4_SessionAggregates ==
    Sessionised =>
        /\ DOMAIN Details = {df.rows[i].session_id : i \in Positions(df)}
        /\ \A sid \in DOMAIN Details :
               LET g == {i \in Positions(df) : df.rows[i].session_id = sid}
                   s == Details[sid]
               IN  /\ \A i \in g : s.session_start <= df.rows[i].timestamp
                   /\ \E i \in g : s.session_start = df.rows[i].timestamp
                   /\ \A i \in g : df.rows[i].timestamp <= s.session_end
                   /\ \E i \in g : s.session_end = df.rows[i].timestamp
                   /\ s.pageviews = Cardinality(g)
                   /\ s.session_duration.sixtieths \in 0..59
                   /\ s.session_duration.whole * 60 + s.session_duration.sixtieths
                          = s.session_end - s.session_start
                   /\ Cardinality(g) = 1 =>
                          s.session_duration = [whole |-> 0, sixtieths |-> 0]
        /\ (/\ timeout = 30
            /\ RowCount(src) = 2
            /\ src.rows[1].ip = src.rows[2].ip
            /\ {src.rows[1].timestamp, src.rows[2].timestamp} = {0, 1200})
               => /\ stats.total_sessions = 1
                  /\ \A sid \in DOMAIN Details :
                         /\ Details[sid].pageviews = 2
                         /\ Details[sid].session_duration = [whole |-> 20, sixtieths |-> 0]

C4_Witness ==
    /\ Sessionised
    /\ timeout = 30
    /\ RowCount(src) = 2
    /\ src.rows[1].ip = src.rows[2].ip
    /\ src.rows[1].timestamp = 1200 /\ src.rows[2].timestamp = 0
    /\ stats.total_sessions = 1

\* the session_id of the row of d whose index is x
SessionIdAt(d, x) ==
    LET i == CHOOSE j \in Positions(d) : d.rows[j].index = x
    IN  d.rows[i].session_id

\* the second and later create_sessions calls received the previous call's output
Reapplied == applied >= 2 /\ ~IsEmpty(src)

\* C5: create_sessions applied to its own output, with the same timeout, gives
\* every row the session_id it already had.
C5_CreateSessionsIdempotent ==
    Reapplied =>
        /\ RowCount(df) = RowCount(prev)
        /\ \A i \in Positions(df) :
               df.rows[i].session_id = SessionIdAt(prev, df.rows[i].index)

C5_Witness ==
    /\ Reapplied
    /\ RowCount(df) = 3
    /\ src.rows # df.rows
    /\ Cardinality({df.rows[i].session_id : i \in Positions(df)}) = 2
    /\ Cardinality({df.rows[i].ip : i \in Positions(df)}) = 1

DistinctIps(d) ==
    \A i, j \in Positions(d) : i # j => d.rows[i].ip # d.rows[j].ip

\* C6: for a table of N >= 1 rows with pairwise distinct ip values,
\* total_sessions and unique_users are both N, whatever the timeout.
C6_DistinctIpsOneSessionEach ==
    (Sessionised /\ DistinctIps(src)) =>
        /\ stats.total_sessions = RowCount(src)
        /\ stats.unique_users = RowCount(src)

C6_Witness ==
    /\ Sessionised
    /\ DistinctIps(src)
    /\ RowCount(src) = 3
    /\ stats.total_sessions = 3

\* C7 as stated: whatever the input table, the empty one included, the table
\* create_sessions returns has a session_id column.
C7_AlwaysHasSessionId == applied >= 1 => "session_id" \in df.columns

\* C7 amended: for a non-empty input table the returned table has a session_id
\* column, filled in on every row; an empty table is returned as it came,
\* without the column.
C7_SessionIdUnlessEmpty ==
    applied >= 1 =>
        IF IsEmpty(src)
        THEN df = src /\ "session_id" \notin df.columns
        ELSE /\ "session_id" \in df.columns
             /\ \A i \in Positions(df) : "session_id" \in DOMAIN df.rows[i]

C7_Witness ==
    /\ applied >= 1
    /\ RowCount(src) = 2
    /\ "session_id" \in df.columns
    /\ "session_id" \notin src.columns

------------------------------------------------------------------------------
(* Bot classification and bot filtering on tables whose user agents vary *)

UA_Googlebot == "Mozilla/5.0 (compatible; Googlebot/2.1)"

UA_Windows == "Mozilla/5.0 (Windows NT 10.0; Win64; x64)"

UserAgents ==
    {None, Some("-"), Some(""), Some(UA_Googlebot), Some(UA_Windows),
     Some("CURL/7.68.0"), Some("Opera/9.80")}

\* the table of records of one ip at one instant whose user agents are f[1], f[2], ...
BotTableOf(f) ==
    [columns |-> BaseColumns,
     rows    |-> [i \in DOMAIN f |-> Record(i - 1, IPOrder[1], 0, f[i])]]

InitBots ==
    /\ \/ df = EmptyDataFrame
       \/ \E n \in 0..MaxRows : \E f \in [1..n -> UserAgents] : df = BotTableOf(f)
    /\ src = df
    /\ timeout = 30
    /\ exclude \in BOOLEAN
    /\ removed = 0
    /\ agent = None
    /\ verdict = FALSE
    /\ prev = EmptyDataFrame
    /\ stats = EmptyDict
    /\ applied = 0
    /\ ParserIdle
    /\ IngestIdle
    /\ pc = "loaded"

FilterBots ==
    /\ pc = "loaded"
    /\ LET result == filter_bots(df, exclude)
       IN  df' = result[1] /\ removed' = result[2]
    /\ pc' = "filtered"
    /\ UNCHANGED <<src, exclude, agent, verdict, sessionVars, parseVars, ingestVars>>

NextBots == FilterBots

SpecBots == InitBots /\ [][NextBots]_vars

------------------------------------------------------------------------------
(* is_bot_user_agent on its own, over user agents built around every        *)
(* signature in lower and upper case and around tokens that are none        *)

UpperMap ==
    [c \in Letters(LowerLetters) |-> CharAt(UpperLetters, LetterIndex(LowerLetters, c))]

UpperChar(c) == IF c \in DOMAIN UpperMap THEN UpperMap[c] ELSE c

RECURSIVE UpperFrom(_, _)
UpperFrom(s, i) ==
    IF i > Len(s) THEN "" ELSE UpperChar(CharAt(s, i)) \o UpperFrom(s, i + 1)

\* str.upper()
Upper(s) == UpperFrom(s, 1)

Signatures == {bot_patterns[i] : i \in 1..Len(bot_patterns)}

Tokens ==
    Signatures \cup {Upper(p) : p \in Signatures}
        \cup {"Firefox/126.0", "Safari", "b-o-t", "Chec k"}

AgentStrings ==
    {a \o b \o c : a \in {"", "Mozilla/5.0 (compatible; "}, b \in Tokens, c \in {"", "/2.1)"}}
        \cup {"", "-", UA_Googlebot, UA_Windows, "CURL/7.68.0"}

Agents == {None} \cup {Some(a) : a \in AgentStrings}

InitClassify ==
    /\ df = EmptyDataFrame
    /\ src = df
    /\ timeout = 30
    /\ exclude = TRUE
    /\ removed = 0
    /\ agent = None
    /\ verdict = FALSE
    /\ prev = EmptyDataFrame
    /\ stats = EmptyDict
    /\ applied = 0
    /\ ParserIdle
    /\ IngestIdle
    /\ pc = "loaded"

ClassifyAgent ==
    /\ pc = "loaded"
    /\ \E ua \in Agents :
           /\ agent' = ua
           /\ verdict' = is_bot_user_agent(ua)
    /\ pc' = "classified"
    /\ UNCHANGED <<df, src, exclude, removed, sessionVars, parseVars, ingestVars>>

NextClassify == ClassifyAgent

SpecClassify == InitClassify /\ [][NextClassify]_vars

------------------------------------------------------------------------------
(* Properties of bot filtering and classification *)

Filtered == pc = "filtered"

IsBotRow(d, i) == is_bot_user_agent(d.rows[i].user_agent)

\* C8: with exclude_bots False, filter_bots returns the input table, same rows
\* in the same order, and a removed count of 0.
C8_FilterDisabledIsIdentity ==
    (Filtered /\ ~exclude) => (df = src /\ removed = 0)

C8_Witness ==
    /\ Filtered /\ ~exclude
    /\ RowCount(src) = 3
    /\ IsBotRow(src, 2)
    /\ RowCount(df) = 3

\* C9: with exclude_bots True on a table with a user_agent column, the result
\* holds exactly the rows whose user_agent is not a bot, in their original
\* order, and the count is the number of bot rows: rows out + count = rows in.
C9_FilterKeepsExactlyNonBots ==
    (Filtered /\ exclude /\ "user_agent" \in src.columns) =>
        LET bots == {k \in Positions(src) : IsBotRow(src, k)}
        IN  /\ \A i \in Positions(df) :
                   \E k \in Positions(src) \ bots : src.rows[k] = df.rows[i]
            /\ \A k \in Positions(src) \ bots :
                   Cardinality({i \in Positions(df) :
                                    df.rows[i].index = src.rows[k].index}) = 1
            /\ \A i, j \in Positions(df) : i < j => df.rows[i].index < df.rows[j].index
            /\ removed = Cardinality(bots)
            /\ RowCount(df) + removed = RowCount(src)

C9_Witness ==
    /\ Filtered /\ exclude
    /\ RowCount(src) = 3
    /\ src.rows[1].user_agent = None
    /\ IsBotRow(src, 2)
    /\ src.rows[3].user_agent = Some(UA_Windows)
    /\ removed = 1
    /\ RowCount(df) = 2

Absent(ua) == ua = None \/ ua = Some("") \/ ua = Some("-")

\* C10: is_bot_user_agent is false for an absent, empty or "-" user agent;
\* otherwise it is true exactly when the lower-cased user agent contains one
\* of the signatures, so changing letter case does not change the result;
\* the Googlebot sample is a bot and the Windows sample is not.
C10_BotVerdict ==
    pc = "classified" =>
        /\ Absent(agent) => ~verdict
        /\ ~Absent(agent) =>
               /\ verdict <=>
                      \E i \in 1..Len(bot_patterns) : Contains(Lower(agent[1]), bot_patterns[i])
               /\ verdict = is_bot_user_agent(Some(Upper(agent[1])))
               /\ verdict = is_bot_user_agent(Some(Lower(agent[1])))
        /\ agent = Some(UA_Googlebot) => verdict
        /\ agent = Some(UA_Windows) => ~verdict

C10_Witness ==
    /\ pc = "classified"
    /\ agent = Some("CURL/7.68.0")
    /\ verdict

------------------------------------------------------------------------------
(* Strings as the parsers see them *)

Whitespace == {" ", "\t", "\n", "\r"}

\* str.strip()
Strip(s) ==
    LET inked == {i \in 1..Len(s) : CharAt(s, i) \notin Whitespace}
    IN  IF inked = {} THEN "" ELSE SubSeq(s, Min(inked), Max(inked))

RECURSIVE RunEnd(_, _, _)
\* last position of the longest run of characters outside stop that starts at
\* position i of s; i - 1 when the run is empty
RunEnd(s, i, stop) ==
    IF i > Len(s) \/ CharAt(s, i) \in stop THEN i - 1 ELSE RunEnd(s, i + 1, stop)

RECURSIVE SplitFrom(_, _)
\* the whitespace-separated words of s from position i on
SplitFrom(s, i) ==
    IF i > Len(s) THEN <<>>
    ELSE IF CharAt(s, i) \in Whitespace THEN SplitFrom(s, i + 1)
    ELSE LET e == RunEnd(s, i, Whitespace)
         IN  <<SubSeq(s, i, e)>> \o SplitFrom(s, e + 1)

\* str.split()
Split(s) == SplitFrom(s, 1)

Digits == "0123456789"

DigitValue == [c \in Letters(Digits) |-> LetterIndex(Digits, c) - 1]

\* str.isdigit(), for ASCII text
IsDigit(s) == Len(s) > 0 /\ \A i \in 1..Len(s) : CharAt(s, i) \in DOMAIN DigitValue

RECURSIVE IntOf(_, _)
\* int(s) for a string of decimal digits: the value of its first n characters
IntOf(s, n) ==
    IF n = 0 THEN 0 ELSE IntOf(s, n - 1) * 10 + DigitValue[CharAt(s, n)]

\* int(s)
Int10(s) == IntOf(s, Len(s))

------------------------------------------------------------------------------
(* datetime.strptime for the directives the parsers use.  A datetime is a   *)
(* record of its fields; tz is None for a naive value and Some(minutes east *)
(* of UTC) for an aware one.                                                *)

MonthNames ==
    <<"jan", "feb", "mar", "apr", "may", "jun", "jul", "aug", "sep", "oct", "nov", "dec">>

IsLeap(y) == (y % 4 = 0 /\ y % 100 # 0) \/ y % 400 = 0

DaysInMonth(y, m) ==
    IF m = 2 THEN (IF IsLeap(y) THEN 29 ELSE 28)
    ELSE IF m \in {4, 6, 9, 11} THEN 30 ELSE 31

\* the fields strptime starts from
Epoch1900 ==
    [year |-> 1900, month |-> 1, day |-> 1, hour |-> 0, minute |-> 0, second |-> 0,
     tz |-> None]

\* number of decimal digits of s at positions i, i+1, ..., at most w
DigitRun(s, i, w) ==
    LET e == RunEnd(s, i, {CharAt(s, k) : k \in 1..Len(s)} \ DOMAIN DigitValue)
    IN  IF e - i + 1 > w THEN w ELSE e - i + 1

\* a one- or two-digit field with values lo..hi: <<value, width>>, or <<>>
NumberField(s, i, lo, hi) ==
    LET n == DigitRun(s, i, 2)
        two == Int10(SubSeq(s, i, i + 1))
        one == Int10(SubSeq(s, i, i))
    IN  IF n = 2 /\ two >= lo /\ two <= hi THEN <<two, 2>>
        ELSE IF n >= 1 /\ one >= lo /\ one <= hi /\ (lo = 0 \/ one >= 1) THEN <<one, 1>>
        ELSE <<>>

\* %b: <<month, 3>> or <<>>
MonthField(s, i) ==
    LET name == IF i + 2 <= Len(s) THEN Lower(SubSeq(s, i, i + 2)) ELSE ""
        hits == {m \in 1..12 : MonthNames[m] = name}
    IN  IF hits = {} THEN <<>> ELSE <<CHOOSE m \in hits : TRUE, 3>>

\* %z as +HHMM or -HHMM: <<minutes east, 5>> or <<>>
ZoneField(s, i) ==
    IF /\ i + 4 <= Len(s)
       /\ CharAt(s, i) \in {"+", "-"}
       /\ IsDigit(SubSeq(s, i + 1, i + 4))
       /\ Int10(SubSeq(s, i + 3, i + 4)) <= 59
    THEN LET minutes == Int10(SubSeq(s, i + 1, i + 2)) * 60 + Int10(SubSeq(s, i + 3, i + 4))
         IN  <<IF CharAt(s, i) = "-" THEN 0 - minutes ELSE minutes, 5>>
    ELSE <<>>

\* the field a directive reads at position i of s: <<value, width>> or <<>>
Field(s, i, directive) ==
    CASE directive = "d" -> NumberField(s, i, 1, 31)
      [] directive = "H" -> NumberField(s, i, 0, 23)
      [] directive = "M" -> NumberField(s, i, 0, 59)
      [] directive = "S" -> NumberField(s, i, 0, 59)
      [] directive = "Y" -> IF DigitRun(s, i, 4) = 4
                            THEN <<Int10(SubSeq(s, i, i + 3)), 4>> ELSE <<>>
      [] directive = "b" -> MonthField(s, i)
      [] directive = "m" -> NumberField(s, i, 1, 12)
      [] directive = "z" -> ZoneField(s, i)
      [] OTHER -> <<>>

\* the datetime dt with the field of a directive set to v
WithField(dt, directive, v) ==
    CASE directive = "d" -> [dt EXCEPT !.day = v]
      [] directive = "H" -> [dt EXCEPT !.hour = v]
      [] directive = "M" -> [dt EXCEPT !.minute = v]
      [] directive = "S" -> [dt EXCEPT !.second = v]
      [] directive = "Y" -> [dt EXCEPT !.year = v]
      [] directive = "b" -> [dt EXCEPT !.month = v]
      [] directive = "m" -> [dt EXCEPT !.month = v]
      [] directive = "z" -> [dt EXCEPT !.tz = Some(v)]
      [] OTHER -> dt

RECURSIVE StrptimeFrom(_, _, _, _, _)
\* the rest of the match once a directive has read field at position i
AfterField(s, i, fmt, j, dt, directive, field) ==
    IF field = <<>> THEN None
    ELSE StrptimeFrom(s, i + field[2], fmt, j + 2, WithField(dt, directive, field[1]))

\* the rest of the match once the whitespace at position i has been read up
\* to position e
AfterSpace(s, i, fmt, j, dt, e) ==
    IF e < i THEN None ELSE StrptimeFrom(s, e + 1, fmt, j + 1, dt)

\* s from position i matched against fmt from position j, dt read so far:
\* Some(datetime), or None where strptime raises ValueError
StrptimeFrom(s, i, fmt, j, dt) ==
    IF j > Len(fmt)
    THEN IF i > Len(s) /\ dt.day <= DaysInMonth(dt.year, dt.month) THEN Some(dt) ELSE None
    ELSE IF CharAt(fmt, j) = "%"
    THEN AfterField(s, i, fmt, j, dt, CharAt(fmt, j + 1),
                    Field(s, i, CharAt(fmt, j + 1)))
    ELSE IF CharAt(fmt, j) = " "
    THEN AfterSpace(s, i, fmt, j, dt,
                    RunEnd(s, i, {CharAt(s, k) : k \in 1..Len(s)} \ Whitespace))
    ELSE IF i <= Len(s) /\ CharAt(s, i) = CharAt(fmt, j)
    THEN StrptimeFrom(s, i + 1, fmt, j + 1, dt)
    ELSE None

\* datetime.strptime(s, fmt): Some(datetime), or None for ValueError
Strptime(s, fmt) == StrptimeFrom(s, 1, fmt, 1, Epoch1900)

------------------------------------------------------------------------------
(* parse_apache_log_line.  Both patterns are matched left to right with a   *)
(* cursor [ok, pos, groups]: every piece of them is a maximal run followed  *)
(* by a fixed character, so the match, when there is one, is unique.        *)

Quote == "\""

StartOf(s) == [ok |-> TRUE, pos |-> 1, groups |-> <<>>]

NoMatch == [ok |-> FALSE, pos |-> 0, groups |-> <<>>]

\* the literal text lit at the cursor
Lit(s, c, lit) ==
    IF c.ok /\ c.pos + Len(lit) - 1 <= Len(s) /\ SubSeq(s, c.pos, c.pos + Len(lit) - 1) = lit
    THEN [c EXCEPT !.pos = c.pos + Len(lit)]
    ELSE NoMatch

\* the longest run of characters outside stop, at least least long, captured or not
Run(s, c, stop, least, capture) ==
    IF ~c.ok THEN NoMatch
    ELSE LET e == RunEnd(s, c.pos, stop)
         IN  IF e - c.pos + 1 < least THEN NoMatch
             ELSE [ok     |-> TRUE,
                   pos    |-> e + 1,
                   groups |-> IF capture THEN Append(c.groups, SubSeq(s, c.pos, e))
                              ELSE c.groups]

\* (\S+)
Token(s, c) == Run(s, c, Whitespace, 1, TRUE)

\* \S+
Skipped(s, c) == Run(s, c, Whitespace, 1, FALSE)

\* \[([^\]]+)\]
Bracketed(s, c) == Lit(s, Run(s, Lit(s, c, "["), {"]"}, 1, TRUE), "]")

\* "([^"]*)"
Quoted(s, c) == Lit(s, Run(s, Lit(s, c, Quote), {Quote}, 0, TRUE), Quote)

\* ^(\S+) \S+ \S+ \[([^\]]+)\] "([^"]*)" (\S+) (\S+)
simple_pattern(s) ==
    LET ip      == Token(s, StartOf(s))
        ident   == Skipped(s, Lit(s, ip, " "))
        user    == Skipped(s, Lit(s, ident, " "))
        stamp   == Bracketed(s, Lit(s, user, " "))
        request == Quoted(s, Lit(s, stamp, " "))
        status  == Token(s, Lit(s, request, " "))
    IN  Token(s, Lit(s, status, " "))

\* ^(\S+) \S+ \S+ \[([^\]]+)\] "([^"]*)" (\S+) (\S+) "([^"]*)" "([^"]*)"
pattern(s) ==
    LET referer == Quoted(s, Lit(s, simple_pattern(s), " "))
    IN  Quoted(s, Lit(s, referer, " "))

\* re.match(pattern, line.strip()), then re.match(simple_pattern, ...): the
\* groups of the first that matches, <<>> when neither does
ApacheGroups(line) ==
    LET s == Strip(line)
    IN  IF pattern(s).ok THEN pattern(s).groups
        ELSE IF simple_pattern(s).ok THEN simple_pattern(s).groups
        ELSE <<>>

ApacheFormatTz == "%d/%b/%Y:%H:%M:%S %z"

ApacheFormat == "%d/%b/%Y:%H:%M:%S"

\* `except ValueError: dt = datetime.now()`
OrNow(dt, now) == IF dt # None THEN dt ELSE Some(now)

\* the except branch of the first strptime: the first word of the text read
\* without offset, or the current time; <<>> when there is no first word
FirstWord(words, now) ==
    IF words = <<>> THEN None ELSE OrNow(Strptime(words[1], ApacheFormat), now)

\* dt when the first strptime returned it, its except branch otherwise
WithoutOffset(dt, words, now) == IF dt # None THEN dt ELSE FirstWord(words, now)

\* the timestamp of an Apache line: <<dt>>, or <<>> when an exception other
\* than ValueError leaves the nested try blocks (timestamp_str.split()[0] on
\* text without a word)
ApacheTimestamp(timestamp_str, now) ==
    WithoutOffset(Strptime(timestamp_str, ApacheFormatTz), Split(timestamp_str), now)

\* the i-th word of the request, "" when there is none
RequestPart_NoDefault(request, i) ==
    IF request # "" /\ Len(Split(request)) >= i THEN Split(request)[i] ELSE ""

\* the i-th word of the request, "-" when there is none
RequestPart(request, i) ==
    IF request # "" /\ Len(Split(request)) >= i THEN Split(request)[i] ELSE "-"

\* the number the leading digits of text spell, 0 when there are none
NumberOrZero_LeadingDigits(text) ==
    IF DigitRun(text, 1, Len(text)) > 0
    THEN Int10(SubSeq(text, 1, DigitRun(text, 1, Len(text)))) ELSE 0

\* int(text) if text != "-" and text.isdigit() else 0
NumberOrZero(text) == IF text # "-" /\ IsDigit(text) THEN Int10(text) ELSE 0

\* "-" read as None
DashAsNone(text) == IF text # "-" THEN Some(text) ELSE None

DateOfDatetime(dt) == [year |-> dt.year, month |-> dt.month, day |-> dt.day]

TimeOfDatetime(dt) ==
    [hour |-> dt.hour, minute |-> dt.minute, second |-> dt.second, tz |-> dt.tz]

\* the dict returned for the groups of a match and the timestamp dt, None
\* when the timestamp left through the outer except
ApacheDict(groups, dt, line) ==
    IF dt = None THEN None
    ELSE Some([timestamp   |-> dt[1],
               date        |-> DateOfDatetime(dt[1]),
               time        |-> TimeOfDatetime(dt[1]),
               ip          |-> groups[1],
               method      |-> RequestPart(groups[3], 1),
               path        |-> RequestPart(groups[3], 2),
               version     |-> RequestPart(groups[3], 3),
               status_code |-> NumberOrZero(groups[4]),
               size        |-> NumberOrZero(groups[5]),
               referer     |-> DashAsNone(IF Len(groups) > 5 THEN groups[6] ELSE "-"),
               user_agent  |-> DashAsNone(IF Len(groups) > 6 THEN groups[7] ELSE "-"),
               raw_line    |-> Strip(line)])

\* what follows the match: None for no match (groups = <<>>)
ApacheMatch(groups, line, now) ==
    IF groups = <<>> THEN None
    ELSE ApacheDict(groups, ApacheTimestamp(groups[2], now), line)

\* parse_apache_log_line(line): Some(record) or None; now is what
\* datetime.now() returns during the call
parse_apache_log_line(line, now) == ApacheMatch(ApacheGroups(line), line, now)

------------------------------------------------------------------------------
(* json.loads for one-level objects whose values are strings without        *)
(* escapes, integers, null, true or false.  A parsed value carries its      *)
(* Python type in `kind`; a dict is a function from keys to such values.    *)

JStr(text) == [kind |-> "str", str |-> text, int |-> 0]

JInt(n) == [kind |-> "int", str |-> "", int |-> n]

JNull == [kind |-> "null", str |-> "", int |-> 0]

JTrue == [kind |-> "true", str |-> "", int |-> 1]

JFalse == [kind |-> "false", str |-> "", int |-> 0]

\* first position at or after i of s that holds no whitespace
SkipWs(s, i) == RunEnd(s, i, {CharAt(s, k) : k \in 1..Len(s)} \ Whitespace) + 1

\* the text lit stands at position i of s
At(s, i, lit) == i + Len(lit) - 1 <= Len(s) /\ SubSeq(s, i, i + Len(lit) - 1) = lit

\* a string literal at position i: <<text, next position>> or <<>>
JsonString(s, i) ==
    IF ~At(s, i, Quote) THEN <<>>
    ELSE LET e == RunEnd(s, i + 1, {Quote})
             text == SubSeq(s, i + 1, e)
         IN  IF e + 1 > Len(s) THEN <<>>
             ELSE IF \E k \in 1..Len(text) : CharAt(text, k) \in {"\\", "\t", "\n", "\r"}
             THEN <<>>
             ELSE <<text, e + 2>>

\* an integer literal at position i: <<value, next position>> or <<>>
JsonInt(s, i) ==
    LET neg == At(s, i, "-")
        b   == IF neg THEN i + 1 ELSE i
        e   == RunEnd(s, b, {CharAt(s, k) : k \in 1..Len(s)} \ DOMAIN DigitValue)
    IN  IF e < b THEN <<>>
        ELSE IF e > b /\ CharAt(s, b) = "0" THEN <<>>
        ELSE IF At(s, e + 1, ".") \/ At(s, e + 1, "e") \/ At(s, e + 1, "E") THEN <<>>
        ELSE <<JInt(IF neg THEN 0 - Int10(SubSeq(s, b, e)) ELSE Int10(SubSeq(s, b, e))), e + 1>>

\* a value at position i: <<value, next position>> or <<>>
JsonValue(s, i) ==
    IF At(s, i, Quote)
    THEN (IF JsonString(s, i) = <<>> THEN <<>>
          ELSE <<JStr(JsonString(s, i)[1]), JsonString(s, i)[2]>>)
    ELSE IF At(s, i, "null") THEN <<JNull, i + 4>>
    ELSE IF At(s, i, "true") THEN <<JTrue, i + 4>>
    ELSE IF At(s, i, "false") THEN <<JFalse, i + 5>>
    ELSE JsonInt(s, i)

RECURSIVE JsonMembers(_, _, _)
\* the members of an object from position i on, after those in dict:
\* <<dict, position after the closing brace>> or <<>>
JsonMembers(s, i, dict) ==
    LET key == JsonString(s, i)
    IN  IF key = <<>> THEN <<>>
        ELSE LET colon == SkipWs(s, key[2])
             IN  IF ~At(s, colon, ":") THEN <<>>
                 ELSE LET value == JsonValue(s, SkipWs(s, colon + 1))
                      IN  IF value = <<>> THEN <<>>
                          ELSE LET after == SkipWs(s, value[2])
                                   more  == (key[1] :> value[1]) @@ dict
                               IN  IF At(s, after, "}") THEN <<more, after + 1>>
                                   ELSE IF At(s, after, ",")
                                   THEN JsonMembers(s, SkipWs(s, after + 1), more)
                                   ELSE <<>>

\* json.loads(s) for s that starts with "{": Some(dict), or None for JSONDecodeError
json_loads(s) ==
    LET first == SkipWs(s, 2)
        body  == IF At(s, first, "}") THEN <<EmptyDict, first + 1>>
                 ELSE JsonMembers(s, first, EmptyDict)
    IN  IF ~At(s, 1, "{") \/ body = <<>> THEN None
        ELSE IF SkipWs(s, body[2]) <= Len(s) THEN None
        ELSE Some(body[1])

\* str.find(sub, start) for a one-character sub, positions counted from 1; 0 for -1
Find(s, sub, start) ==
    LET hits == {i \in start..Len(s) : CharAt(s, i) = sub}
    IN  IF hits = {} THEN 0 ELSE Min(hits)

RECURSIVE ExtractFrom(_, _)
\* the while loop of extract_json_block with start at position start
ExtractFrom(line, start) ==
    IF start = 0 THEN None
    ELSE LET candidate == Strip(SubSeq(line, start, Len(line)))
         IN  IF json_loads(candidate) # None THEN json_loads(candidate)
             ELSE ExtractFrom(line, Find(line, "{", start + 1))

\* extract_json_block(line): Some(dict) or None
extract_json_block(line) == ExtractFrom(line, Find(line, "{", 1))

------------------------------------------------------------------------------
(* parse_log_to_dict: the JSON mapper when the extracted object is truthy,  *)
(* the Apache parser otherwise.                                             *)

\* json_result.get(key, default)
Get(dict, key, default) == IF key \in DOMAIN dict THEN dict[key] ELSE default

\* bool(v) of a parsed JSON value
Truthy(v) ==
    CASE v.kind = "str"  -> v.str # ""
      [] v.kind = "int"  -> v.int # 0
      [] v.kind = "true" -> TRUE
      [] OTHER           -> FALSE

\* `if json_result:` -- an object was extracted and it has at least one key
IsJsonLine(json_result) == json_result # None /\ DOMAIN json_result[1] # {}

time_formats ==
    << "%d/%b/%Y:%H:%M:%S %z",
       "%d/%b/%Y:%H:%M:%S",
       "%Y-%m-%d %H:%M:%S",
       "%Y-%m-%dT%H:%M:%S" >>

\* the loop over time_formats from position i: the result of the first
\* format that parses time_str, None when none does
RECURSIVE FirstFormat(_, _)
\* `break` when format i gave dt, `continue` with the next format otherwise
BreakOrContinue(dt, time_str, i) ==
    IF dt # None THEN dt ELSE FirstFormat(time_str, i + 1)

FirstFormat(time_str, i) ==
    IF i > Len(time_formats) THEN None
    ELSE BreakOrContinue(Strptime(time_str, time_formats[i]), time_str, i)

\* `if not dt: dt = datetime.now()` after the loop
JsonTimestamp_Strict(time_str, now) == FirstFormat(time_str, 1)

JsonTimestamp(time_str, now) == OrNow(FirstFormat(time_str, 1), now)

\* int(v) if str(v).isdigit() else 0
JsonNumber(v) ==
    CASE v.kind = "str" /\ IsDigit(v.str) -> Int10(v.str)
      [] v.kind = "int" /\ v.int >= 0     -> v.int
      [] OTHER                            -> 0

\* the dict of the JSON branch for the timestamp dt
JsonDict(json_result, dt, raw_line) ==
    IF dt = None THEN None
    ELSE Some(
                   [timestamp   |-> dt[1],
                    date        |-> DateOfDatetime(dt[1]),
                    time        |-> TimeOfDatetime(dt[1]),
                    ip          |-> Get(json_result, "forwardedfor",
                                        Get(json_result, "remote_addr", JStr("-"))),
                    method      |-> Get(json_result, "method", JStr("-")),
                    path        |-> Get(json_result, "path",
                                        Get(json_result, "request", JStr("-"))),
                    version     |-> Get(json_result, "version", JStr("-")),
                    status_code |-> JsonNumber(Get(json_result, "code",
                                        Get(json_result, "status", JStr("")))),
                    size        |-> JsonNumber(Get(json_result, "size",
                                        Get(json_result, "bytes", JStr("")))),
                    referer     |-> Get(json_result, "referer", JStr("-")),
                    user_agent  |-> Get(json_result, "agent",
                                        Get(json_result, "user_agent", JStr("-"))),
                    raw_line    |-> Strip(raw_line)])

\* the try block from the time value on
JsonTimed(json_result, time_str, raw_line, now) ==
    IF ~Truthy(time_str) THEN None
    ELSE IF time_str.kind # "str" THEN None
    ELSE JsonDict(json_result, JsonTimestamp(time_str.str, now), raw_line)

\* the try block of the JSON branch: Some(record), or None for a falsy time
\* value and for a time value strptime cannot take (TypeError)
json_record(json_result, raw_line, now) ==
    JsonTimed(json_result, Get(json_result, "time", JStr("")), raw_line, now)

\* which parser parse_log_to_dict hands the line to
RouteOf(json_result) == IF IsJsonLine(json_result) THEN "json" ELSE "apache"

\* parse_log_to_dict from `if json_result:` on
Routed(json_result, raw_line, now) ==
    IF RouteOf(json_result) = "json"
    THEN json_record(json_result[1], raw_line, now)
    ELSE parse_apache_log_line(raw_line, now)

parse_log_to_dict(raw_line, now) ==
    Routed(extract_json_block(raw_line), raw_line, now)

------------------------------------------------------------------------------
(* parse_log_to_dict on one line.  A line is written from its fields, as a  *)
(* web server writes it, and the fields are kept next to the text so that   *)
(* what the parser returns can be compared with what was written.           *)

Datetime(y, mo, d, h, mi, sec, zone) ==
    [year |-> y, month |-> mo, day |-> d, hour |-> h, minute |-> mi,
     second |-> sec, tz |-> zone]

\* values of datetime.now(): naive local time
NowValues ==
    {Datetime(2026, 11, 2, 9, 30, 0, None), Datetime(2026, 11, 2, 23, 59, 59, None)}

\* text between the square brackets, with the datetime it stands for:
\* outcome "parsed" when a format reads it, "now" when none does, "error"
\* when there is no word in it
Stamp(text, outcome, dt) == [text |-> text, outcome |-> outcome, dt |-> dt]

ApacheStamps ==
    { Stamp("26/May/2025:00:01:08 +0000", "parsed", Datetime(2025, 5, 26, 0, 1, 8, Some(0))),
      Stamp("29/Feb/2024:23:59:59 -0330", "parsed", Datetime(2024, 2, 29, 23, 59, 59, Some(-210))),
      Stamp("26/May/2025:00:01:08", "parsed", Datetime(2025, 5, 26, 0, 1, 8, None)),
      Stamp("26/May/2025:00:01:08 UTC", "parsed", Datetime(2025, 5, 26, 0, 1, 8, None)),
      Stamp("2025-05-26 00:01:08", "now", Epoch1900),
      Stamp("31/Feb/2025:00:01:08 +0000", "now", Epoch1900),
      Stamp("yesterday", "now", Epoch1900),
      Stamp(" ", "error", Epoch1900) }

\* the quoted request as written, with the method, path and version in it
Request(text, method, path, version) ==
    [text |-> text, method |-> method, path |-> path, version |-> version]

Requests ==
    { Request("GET /index.html HTTP/1.1", "GET", "/index.html", "HTTP/1.1"),
      Request("POST  /api/v1?x=1", "POST", "/api/v1?x=1", "-"),
      Request("HEAD", "HEAD", "-", "-"),
      Request("", "-", "-", "-"),
      Request("  ", "-", "-", "-") }

\* the status and size fields as written, with the numbers they stand for
Numbers(status, size, status_code, bytes) ==
    [status |-> status, size |-> size, status_code |-> status_code, bytes |-> bytes]

StatusAndSize ==
    { Numbers("200", "512", 200, 512),
      Numbers("404", "-", 404, 0),
      Numbers("-", "0", 0, 0),
      Numbers("0499", "1e3", 499, 0),
      Numbers("3xx", "-1", 0, 0) }

\* the referer and user agent fields, <<>> for a line that ends after size
QuotedFields == {<<>>, <<"-", "Mozilla/5.0">>, <<"https://example.org/", "-">>}

\* what follows the last field on the line
Trailers == {"", " {}", "\n"}

ApacheParts ==
    [kind : {"apache"}, ip : {"203.0.113.5", "::1"}, stamp : ApacheStamps,
     request : Requests, numbers : StatusAndSize, quoted : QuotedFields,
     trailer : Trailers]

\* the `time` member of a JSON line, with the datetime it stands for:
\* outcome "parsed", "now" (a string no format reads), "reject" (falsy or
\* not a string) -- present is FALSE for an object without the key
TimeCase(present, value, outcome, dt) ==
    [present |-> present, value |-> value, outcome |-> outcome, dt |-> dt]

JsonTimes ==
    { TimeCase(FALSE, JNull, "reject", Epoch1900),
      TimeCase(TRUE, JStr(""), "reject", Epoch1900),
      TimeCase(TRUE, JNull, "reject", Epoch1900),
      TimeCase(TRUE, JInt(0), "reject", Epoch1900),
      TimeCase(TRUE, JInt(1748217668), "reject", Epoch1900),
      TimeCase(TRUE, JStr("26/May/2025:00:01:08 +0200"), "parsed",
               Datetime(2025, 5, 26, 0, 1, 8, Some(120))),
      TimeCase(TRUE, JStr("26/May/2025:00:01:08"), "parsed",
               Datetime(2025, 5, 26, 0, 1, 8, None)),
      TimeCase(TRUE, JStr("2025-05-26 00:01:08"), "parsed",
               Datetime(2025, 5, 26, 0, 1, 8, None)),
      TimeCase(TRUE, JStr("2025-05-26T00:01:08"), "parsed",
               Datetime(2025, 5, 26, 0, 1, 8, None)),
      TimeCase(TRUE, JStr("yesterday"), "now", Epoch1900),
      TimeCase(TRUE, JStr("2025-05-26T00:01:08Z"), "now", Epoch1900),
      TimeCase(TRUE, JStr("2025-02-30 00:00:00"), "now", Epoch1900) }

\* the other members of the object, as written
JsonFields ==
    { <<>>,
      << "\"remote_addr\": \"203.0.113.5\"", "\"code\": 200", "\"bytes\": \"512\"" >>,
      << "\"forwardedfor\": \"10.0.0.1\"", "\"status\": \"404\"", "\"size\": \"-\"",
         "\"agent\": null" >> }

\* what a log shipper writes before the object
Prefixes == {"", "Nov  2 09:30:00 web1 nginx: ", "{broken "}

JsonParts ==
    [kind : {"json"}, prefix : Prefixes, time : JsonTimes, fields : JsonFields,
     trailer : {"", "\n"}]

\* lines in neither format
OtherParts ==
    [kind : {"other"},
     text : {"", "\n", "garbage", "{", "{not json}", "[26/May/2025:00:01:08 +0000] only",
             "203.0.113.5 - - 26/May/2025 \"GET / HTTP/1.1\" 200 512",
             "[1, 2]"}]

\* a JSON value as written
JsonText(v) ==
    CASE v.kind = "str"   -> Quote \o v.str \o Quote
      [] v.kind = "int"   -> ToString(v.int)
      [] v.kind = "true"  -> "true"
      [] v.kind = "false" -> "false"
      [] OTHER            -> "null"

RECURSIVE Join(_, _)
\* sep.join(items)
Join(items, sep) ==
    IF items = <<>> THEN ""
    ELSE IF Len(items) = 1 THEN items[1]
    ELSE items[1] \o sep \o Join(Tail(items), sep)

\* the members of a JSON line: the time member first when there is one
Members(p) ==
    (IF p.time.present THEN <<"\"time\": " \o JsonText(p.time.value)>> ELSE <<>>)
        \o p.fields

\* the line as written from its fields
Render(p) ==
    CASE p.kind = "apache" ->
             p.ip \o " - - [" \o p.stamp.text \o "] " \o Quote \o p.request.text \o Quote
                 \o " " \o p.numbers.status \o " " \o p.numbers.size
                 \o (IF p.quoted = <<>> THEN ""
                     ELSE " " \o Quote \o p.quoted[1] \o Quote
                              \o " " \o Quote \o p.quoted[2] \o Quote)
                 \o p.trailer
      [] p.kind = "json" ->
             p.prefix \o "{" \o Join(Members(p), ", ") \o "}" \o p.trailer
      [] OTHER -> p.text

InitParse ==
    /\ df = EmptyDataFrame
    /\ src = df
    /\ timeout = 30
    /\ exclude = TRUE
    /\ removed = 0
    /\ agent = None
    /\ verdict = FALSE
    /\ prev = EmptyDataFrame
    /\ stats = EmptyDict
    /\ applied = 0
    /\ ParserIdle
    /\ IngestIdle
    /\ pc = "loaded"

\* the inputs a call can be made with: those of `inputs` while no call has
\* been made, none afterwards
Pending(inputs) == IF pc = "loaded" THEN inputs ELSE {}

\* one call parse_log_to_dict(raw_line)
ParseText(p, raw_line, now, json_result) ==
    /\ pc = "loaded"
    /\ parts' = p
    /\ input' = raw_line
    /\ clock' = now
    /\ extracted' = json_result
    /\ route' = RouteOf(json_result)
    /\ parsed' = Routed(json_result, raw_line, now)
    /\ pc' = "parsed"
    /\ UNCHANGED <<df, src, sessionVars, botVars, ingestVars>>

Parse(p, now) == ParseText(p, Render(p), now, extract_json_block(Render(p)))

ParseLine ==
    \E now \in Pending(NowValues) :
        \/ \E p \in ApacheParts : Parse(p, now)
        \/ \E p \in JsonParts : Parse(p, now)
        \/ \E p \in OtherParts : Parse(p, now)

NextParse == ParseLine

SpecParse == InitParse /\ [][NextParse]_vars

------------------------------------------------------------------------------
(* Properties of parse_log_to_dict *)

\* a call of parse_log_to_dict has returned
Returned == pc = "parsed"

\* the extracted object has no `time` key, or an empty string under it
NoTime(dict) == "time" \notin DOMAIN dict \/ dict["time"] = JStr("")

\* C11: whenever a JSON object is extracted from the line and the object has
\* no `time` key or an empty `time` value, parse_log_to_dict returns no
\* record.
C11_NoTimeIsFailure ==
    (Returned /\ extracted # None /\ NoTime(extracted[1])) => parsed = None

\* the line was written as a JSON line whose `time` is a non-empty string
StringTime ==
    /\ Returned
    /\ parts.kind = "json"
    /\ parts.time.present
    /\ parts.time.value.kind = "str"
    /\ parts.time.value.str # ""

\* a format reads the `time` value and the record carries what it reads
MatchedTimeKept ==
    parts.time.outcome = "parsed" =>
        parsed # None /\ parsed[1].timestamp = parts.time.dt

ApacheLine == Returned /\ parts.kind = "apache" /\ route = "apache"

\* C13: every line matching an Apache pattern yields a record whatever the
\* text in the square brackets; text no format reads yields a record stamped
\* with the current wall-clock time.
C13_ApacheNeverRejectsOnTimestamp ==
    ApacheLine =>
        /\ parsed # None
        /\ parts.stamp.outcome # "parsed" => parsed[1].timestamp = clock
        /\ parts.stamp.outcome = "parsed" => parsed[1].timestamp = parts.stamp.dt

\* the Apache parser returned a record for a line written as an Apache line
ApacheRecord == ApacheLine /\ parsed # None

\* C14: the record of an Apache line carries the value of the status and
\* size fields when they are decimal digits and 0 otherwise, so neither is
\* ever negative.
C14_StatusAndSizeNumericOrZero ==
    ApacheRecord =>
        /\ parsed[1].status_code = parts.numbers.status_code
        /\ parsed[1].size = parts.numbers.bytes
        /\ parsed[1].status_code \in Nat
        /\ parsed[1].size \in Nat

C14_Witness ==
    /\ ApacheRecord
    /\ parts.numbers.status = "0499"
    /\ parts.numbers.size = "1e3"
    /\ parsed[1].status_code = 499
    /\ parsed[1].size = 0

ExampleLine ==
    "203.0.113.5 - - [26/May/2025:00:01:08 +0000] \"GET /index.html HTTP/1.1\" 200 512 \"-\" \"Mozilla/5.0\""

\* C15: the record of an Apache line has the first token of the line as ip
\* and the words of the quoted request, in order, as method, path and
\* version, "-" standing for each missing word; the example line yields ip
\* 203.0.113.5, method GET, path /index.html, status_code 200, size 512.
C15_IpAndRequestPositional ==
    /\ ApacheRecord =>
           /\ parsed[1].ip = parts.ip
           /\ parsed[1].method = parts.request.method
           /\ parsed[1].path = parts.request.path
           /\ parsed[1].version = parts.request.version
    /\ (Returned /\ input = ExampleLine) =>
           /\ parsed # None
           /\ parsed[1].ip = "203.0.113.5"
           /\ parsed[1].method = "GET"
           /\ parsed[1].path = "/index.html"
           /\ parsed[1].status_code = 200
           /\ parsed[1].size = 512

C15_Witness ==
    /\ Returned
    /\ input = ExampleLine
    /\ parsed # None
    /\ parsed[1].version = "HTTP/1.1"

\* C16: when extract_json_block returns an object the outcome is the JSON
\* mapper's and the Apache parser is not applied; the Apache parser is
\* applied exactly when no object could be extracted.
C16_JsonExtractedMeansJsonMapper ==
    Returned =>
        /\ route = "apache" <=> extracted = None
        /\ extracted # None => parsed = json_record(extracted[1], input, clock)

------------------------------------------------------------------------------
(* Ingestion: crear_dataframe and crear_dataframe_sample.  A file is its    *)
(* lines, whether its last line ends in a newline, and where the operating  *)
(* system fails it: at open, or at the read that would deliver line `at`.   *)
(* The lines of a file may be padded with trailing blanks to a common       *)
(* width; the parsers strip a line before they look at it, so the padding   *)
(* counts in the size of the file only and is not kept in `lines`.          *)

MaxLines == 3

SampleBytes == 100000

FallbackLines == 100000

DefaultChunkSize == 10000

\* what datetime.now() returns during an ingestion
IngestNow == Datetime(2026, 11, 2, 9, 30, 0, None)

\* a line with an offset in its timestamp and one without
ParseableLines ==
    { ExampleLine,
      "{\"time\": \"2025-05-26 00:01:09\", \"remote_addr\": \"10.0.0.1\", \"code\": 404}" }

\* a line in no format
UnparseableLines == {"garbage"}

IngestLines == ParseableLines \cup UnparseableLines

File(lines, final_newline, fault, at, width) ==
    [lines |-> lines, final_newline |-> final_newline, fault |-> fault, at |-> at,
     width |-> width]

Faults(n) ==
    {<<"none", 0>>, <<"open", 0>>} \cup {<<"read", i>> : i \in 0..n}

\* open(archivo_log) raises
OpenFails(f) == f.fault = "open"

\* the read that would deliver line i (or the end of the file) raises
ReadFails(f, i) == f.fault = "read" /\ f.at = i

\* line i (from 0) as iteration over the file delivers it
LineAt(f, i) ==
    f.lines[i + 1] \o (IF i + 1 < Len(f.lines) \/ f.final_newline THEN "\n" ELSE "")

\* whether line i ends in a newline
Terminated(f, i) == i + 1 < Len(f.lines) \/ f.final_newline

\* number of characters of line i in the file, its newline included; width 0
\* stands for a file without padding
CharsOf(f, i) ==
    IF f.width = 0 THEN Len(LineAt(f, i))
    ELSE f.width + (IF Terminated(f, i) THEN 1 ELSE 0)

RECURSIVE Offset(_, _)
\* number of characters before line i
Offset(f, i) == IF i = 0 THEN 0 ELSE Offset(f, i - 1) + CharsOf(f, i - 1)

\* file.tell() at the end of the file
FileSize(f) == Offset(f, Len(f.lines))

\* sample.count('\n') for sample = file.read(100000)
LinesInSample(f) ==
    Cardinality({i \in 0..(Len(f.lines) - 1) :
                    /\ Offset(f, i + 1) <= SampleBytes
                    /\ Terminated(f, i)})

\* the estimate of the number of lines
EstimateLines(f) ==
    IF LinesInSample(f) > 0
    THEN (FileSize(f) * LinesInSample(f)) \div SampleBytes
    ELSE FallbackLines

\* parse_log_to_dict on the lines a file can hold, with and without newline
RECURSIVE ParsesOf(_)
ParsesOf(texts) ==
    IF texts = {} THEN <<>>
    ELSE LET l == CHOOSE t \in texts : TRUE
         IN  (l :> parse_log_to_dict(l, IngestNow)) @@ ParsesOf(texts \ {l})

ParsedLine == ParsesOf(IngestLines \cup {t \o "\n" : t \in IngestLines})

\* `if max_lines and line_num >= max_lines`
AtLimit(limit, i) == limit # None /\ limit[1] # 0 /\ i >= limit[1]

\* the counters and lists of the loop, as one value
Counters(d, c, e, p, x) ==
    [datos |-> d, chunk_datos |-> c, errores |-> e,
     lineas_procesadas |-> p, lineas_exitosas |-> x]

\* the loop body up to lineas_procesadas += 1, errors left uncounted
Tally_ErrorsUncounted(c, rec) ==
    IF rec # None
    THEN [c EXCEPT !.chunk_datos = Append(@, rec[1]),
                   !.lineas_exitosas = @ + 1,
                   !.lineas_procesadas = @ + 1]
    ELSE [c EXCEPT !.lineas_procesadas = @ + 1]

\* the loop body up to lineas_procesadas += 1
Tally(c, rec) ==
    IF rec # None
    THEN [c EXCEPT !.chunk_datos = Append(@, rec[1]),
                   !.lineas_exitosas = @ + 1,
                   !.lineas_procesadas = @ + 1]
    ELSE [c EXCEPT !.errores = @ + 1,
                   !.lineas_procesadas = @ + 1]

\* `if len(chunk_datos) >= chunk_size`
ChunkFull(c, size) == Len(c.chunk_datos) >= size

\* datos = chunk_datos; chunk_datos = []
Flush_Overwrites(c) ==
    [c EXCEPT !.datos = c.chunk_datos, !.chunk_datos = <<>>]

\* datos.extend(chunk_datos); chunk_datos = []
Flush(c) ==
    [c EXCEPT !.datos = @ \o c.chunk_datos, !.chunk_datos = <<>>]

\* min(line_num / max_lines if max_lines else 0.5, 1.0) as <<numerator,
\* denominator>>
Progress(i, limit) ==
    IF limit # None /\ limit[1] # 0
    THEN IF i >= limit[1] THEN <<1, 1>> ELSE <<i, limit[1]>>
    ELSE <<1, 2>>

RecordColumns ==
    {"timestamp", "date", "time", "ip", "method", "path", "version",
     "status_code", "size", "referer", "user_agent", "raw_line"}

\* pd.DataFrame(datos) with the column conversions, which keep every value
DataFrameOf(records) ==
    [columns |-> RecordColumns,
     rows    |-> [i \in 1..Len(records) |->
                     [c \in RecordColumns \cup {"index"} |->
                         IF c = "index" THEN i - 1 ELSE records[i][c]]]]

\* timestamps with and without offset side by side: pd.to_datetime raises
\* in some pandas versions and returns in others
MixedAwareness(records) ==
    /\ \E i \in 1..Len(records) : records[i].timestamp.tz = None
    /\ \E i \in 1..Len(records) : records[i].timestamp.tz # None

\* the except branch: `return pd.DataFrame(), errores`
Failed_Raises(e) == None

Failed(e) == Some(<<EmptyDataFrame, e>>)

\* the value returned after the loop
Completed(records, e) ==
    IF records # <<>> THEN Some(<<DataFrameOf(records), e>>)
    ELSE Some(<<EmptyDataFrame, e>>)

\* what the loop of crear_dataframe has in hand when it is left
LoopResult(d, e, failed) == [datos |-> d, errores |-> e, failed |-> failed]

RECURSIVE PrefixLoop(_, _, _, _, _)
\* the loop of crear_dataframe from line i on, d being the records and e the
\* errors of the lines before it, without the chunk buffer
PrefixLoop(f, limit, i, d, e) ==
    IF ReadFails(f, i) THEN LoopResult(d, e, TRUE)
    ELSE IF i >= Len(f.lines) \/ AtLimit(limit, i) THEN LoopResult(d, e, FALSE)
    ELSE IF ParsedLine[LineAt(f, i)] # None
    THEN PrefixLoop(f, limit, i + 1, Append(d, ParsedLine[LineAt(f, i)][1]), e)
    ELSE PrefixLoop(f, limit, i + 1, d, e + 1)

\* the values crear_dataframe can return after its loop was left with r
PrefixOutcomes(r) ==
    IF r.failed THEN {Failed(r.errores)}
    ELSE {Completed(r.datos, r.errores)}
         \cup (IF MixedAwareness(r.datos) THEN {Failed(r.errores)} ELSE {})

\* the values crear_dataframe(f, max_lines=limit) can return
crear_dataframe(f, limit) ==
    IF OpenFails(f) THEN {Failed(0)}
    ELSE PrefixOutcomes(PrefixLoop(f, limit, 0, <<>>, 0))

DefaultSampleSize == 50000

\* values of max_lines: not given, or a number of lines
Limits == {None} \cup {Some(k) : k \in 0..(MaxLines + 1)}

ChunkSizes == {0, 1, 2, DefaultChunkSize}

SampleSizes == {1, 2, DefaultSampleSize, FallbackLines}

\* the widths lines are padded to: none, and widths that put three lines
\* just inside and well outside the first SampleBytes characters
Widths == {0, 29999, 49999}

\* the files an ingestion can be given
FileOf(ls, nl, ft, w) == File(ls, nl, ft[1], ft[2], w)

InitIngest ==
    /\ df = EmptyDataFrame
    /\ src = df
    /\ timeout = 30
    /\ exclude = TRUE
    /\ removed = 0
    /\ agent = None
    /\ verdict = FALSE
    /\ prev = EmptyDataFrame
    /\ stats = EmptyDict
    /\ applied = 0
    /\ ParserIdle
    /\ IngestIdle
    /\ pc = "loaded"

\* the end of either function: the table is built and returned, or building
\* it raises and the except branch returns
Build(records, e) ==
    \/ /\ retval' = Completed(records, e)
       /\ ended' = "returned"
    \/ /\ MixedAwareness(records)
       /\ retval' = Failed(e)
       /\ ended' = "build_error"

\* crear_dataframe(archivo_log, max_lines, chunk_size, progress_callback) up
\* to the first iteration of its loop
CallPrefixWith(f, limit, size, callback) ==
    /\ pc = "loaded"
    /\ file' = f
    /\ mode' = "prefix"
    /\ max_lines' = limit
    /\ chunk_size' = size
    /\ progress_callback' = callback
    /\ opened' = TRUE
    /\ IF OpenFails(f)
       THEN retval' = Failed(errores) /\ ended' = "io_error" /\ pc' = "done"
       ELSE retval' = None /\ ended' = "" /\ pc' = "reading"
    /\ UNCHANGED <<sample_size, loopVars, sampleVars>>
    /\ UNCHANGED <<df, src, sessionVars, botVars, parseVars>>

CallPrefix ==
    \E n \in Pending(0..MaxLines) : \E ls \in [1..n -> IngestLines] :
        \E nl \in {b \in BOOLEAN : n = 0 => ~b} : \E ft \in Faults(n) :
            \E limit \in Limits : \E size \in ChunkSizes : \E callback \in BOOLEAN :
                /\ CallPrefixWith(FileOf(ls, nl, ft, 0), limit, size, callback)
                /\ loaded' = None

\* the indices of the sample that fall inside the file: random.sample draws
\* k of range(total), of which any set below the line count n can be part
\* as long as the rest fits above it
SamplesBelow(n, total, k) ==
    LET m == Min({n, total})
    IN  {S \in SUBSET (0..(m - 1)) :
            Cardinality(S) <= k /\ k - Cardinality(S) <= total - m}

\* the file cannot be opened, or a read fails within the characters that
\* file.read(100000) asks for
EstimateFails(f) ==
    OpenFails(f) \/ \E i \in 0..Len(f.lines) : ReadFails(f, i) /\ Offset(f, i) < SampleBytes

\* crear_dataframe called with no limit
Delegate_NoLimit(total) ==
    /\ max_lines' = None
    /\ chunk_size' = DefaultChunkSize
    /\ retval' = None
    /\ ended' = ""
    /\ pc' = "reading"
    /\ UNCHANGED <<sample_set, drawn>>

\* `return crear_dataframe(archivo_log, max_lines=total_lines)`
Delegate(total) ==
    /\ max_lines' = Some(total)
    /\ chunk_size' = DefaultChunkSize
    /\ retval' = None
    /\ ended' = ""
    /\ pc' = "reading"
    /\ UNCHANGED <<sample_set, drawn>>

\* random.sample(range(total_lines), min(sample_size, total_lines)) and the
\* set made of it
Draw(n, total, k) ==
    /\ sample_set' \in SamplesBelow(n, total, Min({k, total}))
    /\ drawn' = Min({k, total})
    /\ retval' = None
    /\ ended' = ""
    /\ pc' = "sampling"
    /\ UNCHANGED <<max_lines, chunk_size>>

\* the except branch of crear_dataframe_sample before `errores = 0` was
\* reached: `return pd.DataFrame(), errores` ends in UnboundLocalError
RaiseUnbound ==
    /\ retval' = None
    /\ ended' = "raised"
    /\ pc' = "done"
    /\ UNCHANGED <<max_lines, chunk_size, sample_set, drawn>>

\* crear_dataframe_sample(archivo_log, sample_size) up to the first
\* iteration of a loop.  A sample_size of None makes the comparison
\* `total_lines <= sample_size` raise.
CallSampleWith(f, size) ==
    /\ pc = "loaded"
    /\ file' = f
    /\ mode' = "sample"
    /\ sample_size' = size
    /\ progress_callback' = FALSE
    /\ opened' = TRUE
    /\ IF EstimateFails(f)
       THEN RaiseUnbound /\ UNCHANGED total_lines
       ELSE /\ total_lines' = EstimateLines(f)
            /\ IF size = None THEN RaiseUnbound
               ELSE IF EstimateLines(f) <= size[1] THEN Delegate(EstimateLines(f))
               ELSE Draw(Len(f.lines), EstimateLines(f), size[1])
    /\ UNCHANGED loopVars
    /\ UNCHANGED <<df, src, sessionVars, botVars, parseVars>>

CallSample ==
    \E n \in Pending(0..MaxLines) : \E ls \in [1..n -> IngestLines] :
        \E nl \in {b \in BOOLEAN : n = 0 => ~b} : \E ft \in Faults(n) :
            \E w \in Widths : \E k \in SampleSizes :
                /\ CallSampleWith(FileOf(ls, nl, ft, w), Some(k))
                /\ loaded' = None

\* the values of load_data's modo_carga
Modes == {"Muestra aleatoria", "Primeras líneas"}

\* load_data(archivo, modo_carga, max_lines, sample_size)
LoadDataWith(f, modo, limit, size) ==
    /\ loaded' = Some([modo_carga |-> modo, max_lines |-> limit, sample_size |-> size])
    /\ IF modo = "Muestra aleatoria"
       THEN CallSampleWith(f, size)
       ELSE CallPrefixWith(f, limit, DefaultChunkSize, FALSE)

LoadData ==
    \E n \in Pending(0..MaxLines) : \E ls \in [1..n -> IngestLines] :
        \E nl \in {b \in BOOLEAN : n = 0 => ~b} : \E ft \in {<<"none", 0>>, <<"open", 0>>} :
            \E modo \in Modes : \E limit \in Limits :
                \E size \in {None} \cup {Some(k) : k \in SampleSizes} :
                    LoadDataWith(FileOf(ls, nl, ft, 0), modo, limit, size)

\* the end of a turn with progress_callback(progress, line_num)
EndOfTurn_PassesLineNum(u, full) ==
    /\ datos' = u.datos
    /\ chunk_datos' = u.chunk_datos
    /\ errores' = u.errores
    /\ lineas_procesadas' = u.lineas_procesadas
    /\ lineas_exitosas' = u.lineas_exitosas
    /\ parsed_lines' = Append(parsed_lines, line_num)
    /\ calls' = IF full /\ progress_callback
                THEN Append(calls, <<Progress(line_num, max_lines), line_num>>)
                ELSE calls
    /\ line_num' = line_num + 1
    /\ UNCHANGED <<retval, ended, pc>>

\* the end of a turn of crear_dataframe's loop: the counters and lists are
\* u, and the progress callback is called when the chunk was moved
EndOfTurn(u, full) ==
    /\ datos' = u.datos
    /\ chunk_datos' = u.chunk_datos
    /\ errores' = u.errores
    /\ lineas_procesadas' = u.lineas_procesadas
    /\ lineas_exitosas' = u.lineas_exitosas
    /\ parsed_lines' = Append(parsed_lines, line_num)
    /\ calls' = IF full /\ progress_callback
                THEN Append(calls, <<Progress(line_num, max_lines), u.lineas_procesadas>>)
                ELSE calls
    /\ line_num' = line_num + 1
    /\ UNCHANGED <<retval, ended, pc>>

\* the loop body from the chunk test on, t being the counters and lists
\* after the line was parsed and counted
LoopBody(t) ==
    EndOfTurn(IF ChunkFull(t, chunk_size) THEN Flush(t) ELSE t,
              ChunkFull(t, chunk_size))

\* one turn of crear_dataframe's loop: the read of the next line, then the
\* limit test and the body, or the end of the loop and what follows it
ReadNext ==
    /\ pc = "reading"
    /\ IF ReadFails(file, line_num)
       THEN /\ retval' = Failed(errores)
            /\ ended' = "io_error"
            /\ pc' = "done"
            /\ UNCHANGED loopVars
       ELSE IF line_num >= Len(file.lines) \/ AtLimit(max_lines, line_num)
       THEN /\ datos' = IF chunk_datos # <<>> THEN datos \o chunk_datos ELSE datos
            /\ Build(datos', errores)
            /\ pc' = "done"
            /\ UNCHANGED <<line_num, chunk_datos, errores, lineas_procesadas,
                           lineas_exitosas, parsed_lines, calls>>
       ELSE LoopBody(Tally(Counters(datos, chunk_datos, errores, lineas_procesadas,
                                    lineas_exitosas),
                           ParsedLine[LineAt(file, line_num)]))
    /\ UNCHANGED <<callVars, sampleVars, opened, loaded>>
    /\ UNCHANGED <<df, src, sessionVars, botVars, parseVars>>

\* the body of the second pass for a line of the sample, failures left
\* uncounted
SampledLine_ErrorsUncounted(rec) ==
    /\ datos' = IF rec # None THEN Append(datos, rec[1]) ELSE datos
    /\ errores' = errores
    /\ parsed_lines' = Append(parsed_lines, line_num)
    /\ line_num' = line_num + 1
    /\ UNCHANGED <<chunk_datos, lineas_procesadas, lineas_exitosas, calls>>
    /\ UNCHANGED <<retval, ended, pc>>

\* the body of the second pass for a line of the sample, rec being what
\* parse_log_to_dict returned for it
SampledLine(rec) ==
    /\ datos' = IF rec # None THEN Append(datos, rec[1]) ELSE datos
    /\ errores' = IF rec = None THEN errores + 1 ELSE errores
    /\ parsed_lines' = Append(parsed_lines, line_num)
    /\ line_num' = line_num + 1
    /\ UNCHANGED <<chunk_datos, lineas_procesadas, lineas_exitosas, calls>>
    /\ UNCHANGED <<retval, ended, pc>>

\* one turn of the loop of crear_dataframe_sample's second pass
SampleNext ==
    /\ pc = "sampling"
    /\ IF ReadFails(file, line_num)
       THEN /\ retval' = Failed(errores)
            /\ ended' = "io_error"
            /\ pc' = "done"
            /\ UNCHANGED loopVars
       ELSE IF line_num >= Len(file.lines)
       THEN /\ Build(datos, errores)
            /\ pc' = "done"
            /\ UNCHANGED loopVars
       ELSE IF line_num \in sample_set
       THEN SampledLine(ParsedLine[LineAt(file, line_num)])
       ELSE /\ line_num' = line_num + 1
            /\ UNCHANGED <<datos, errores, parsed_lines>>
            /\ UNCHANGED <<chunk_datos, lineas_procesadas, lineas_exitosas, calls>>
            /\ UNCHANGED <<retval, ended, pc>>
    /\ UNCHANGED <<callVars, sampleVars, opened, loaded>>
    /\ UNCHANGED <<df, src, sessionVars, botVars, parseVars>>

NextIngest == CallPrefix \/ CallSample \/ LoadData \/ ReadNext \/ SampleNext

SpecIngest == InitIngest /\ [][NextIngest]_vars

------------------------------------------------------------------------------
(* Properties of ingestion *)

\* a crear_dataframe call made by the caller is under way or over
PrefixMode == mode = "prefix"

\* the call is over without a failure of the file
ReadToEnd == pc = "done" /\ ended \in {"returned", "build_error"}

\* C17: with max_lines = limit, crear_dataframe gives the parser exactly the
\* first min(limit, number of lines) lines, in file order, and never a line
\* at index >= limit.
C17_PrefixParsesFirstLimitLines ==
    (PrefixMode /\ max_lines # None) =>
        /\ \A j \in 1..Len(parsed_lines) :
               parsed_lines[j] = j - 1 /\ parsed_lines[j] < max_lines[1]
        /\ ReadToEnd =>
               Len(parsed_lines) = Min({max_lines[1], Len(file.lines)})

\* the positions of parsed_lines whose line is one of `texts`
ParsedAmong(texts) ==
    {j \in 1..Len(parsed_lines) : file.lines[parsed_lines[j] + 1] \in texts}

\* line i lies within the limit
WithinLimit(i) == max_lines = None \/ i < max_lines[1]

\* C18: in crear_dataframe a line that fails to parse stops nothing: every
\* line the loop has passed was processed, successes + errors = lines
\* processed throughout, and a call that completes returns one row per
\* line that parsed and an error count equal to the number that did not,
\* every line within the limit having been processed.
C18_FailuresCountedNotFatal ==
    PrefixMode =>
        /\ lineas_exitosas + errores = lineas_procesadas
        /\ lineas_procesadas = Len(parsed_lines)
        /\ pc = "reading" => lineas_procesadas = line_num
        /\ lineas_exitosas = Cardinality(ParsedAmong(ParseableLines))
        /\ errores = Cardinality(ParsedAmong(UnparseableLines))
        /\ (pc = "done" /\ ended = "returned") =>
               /\ Len(retval[1][1].rows) = Cardinality(ParsedAmong(ParseableLines))
               /\ retval[1][2] = Cardinality(ParsedAmong(UnparseableLines))
               /\ \A i \in 0..(Len(file.lines) - 1) :
                      WithinLimit(i) => \E j \in 1..Len(parsed_lines) : parsed_lines[j] = i

C18_Witness ==
    /\ PrefixMode
    /\ pc = "done"
    /\ ended = "returned"
    /\ Len(file.lines) = 3
    /\ file.lines[1] \in UnparseableLines
    /\ file.lines[2] \in ParseableLines
    /\ file.lines[3] \in UnparseableLines
    /\ Len(retval[1][1].rows) = 1
    /\ retval[1][2] = 2

\* the call is over and the file could not be opened or a read of it failed
FileFailure == pc = "done" /\ ended \in {"io_error", "raised"}

\* C19: in both modes a call whose file cannot be opened or read returns an
\* empty table with the error counter as it stood, and does not raise.
C19_FileFailureReturnsEmpty ==
    FileFailure =>
        /\ ended # "raised"
        /\ retval # None
        /\ IsEmpty(retval[1][1])
        /\ retval[1][2] = errores

\* what a successful ingestion returns for a readable file none of whose
\* lines parses, by the number of its lines
SilentSuccesses == {Completed(<<>>, e) : e \in 0..(MaxLines + 1)}

\* C20 as claimed: the value returned after a file failure differs from
\* every value a successful ingestion of a readable file without a
\* parseable line returns.
C20_FileFailureDistinguishable ==
    FileFailure => retval \notin SilentSuccesses

\* C20 as the code has it: crear_dataframe returns after a file failure the
\* very value it returns for a readable file without a parseable line and
\* with as many failed lines; a file that cannot be opened gives the value
\* of an empty file.
C20_FileFailureLooksLikeEmptySuccess ==
    /\ (PrefixMode /\ FileFailure) =>
           /\ retval = Completed(<<>>, errores)
           /\ OpenFails(file) => retval = Completed(<<>>, 0)
    /\ (PrefixMode /\ pc = "done" /\ ended = "returned" /\ lineas_exitosas = 0) =>
           retval = Some(<<EmptyDataFrame, errores>>)

C20_Witness ==
    /\ PrefixMode
    /\ FileFailure
    /\ OpenFails(file)
    /\ retval = Some(<<EmptyDataFrame, 0>>)

\* load_data was the caller and was given both a limit and a sample size,
\* or neither
InvalidCombination ==
    /\ loaded # None
    /\ (loaded[1].max_lines # None) <=> (loaded[1].sample_size # None)

\* C21: a load given both a limit and a sample size, or neither, is rejected
\* before any file access: the file is not opened, no line is given to the
\* parser and no table is returned.
C21_InvalidCombinationRejected ==
    InvalidCombination =>
        /\ ~opened
        /\ parsed_lines = <<>>
        /\ retval = None

\* crear_dataframe_sample found its estimate above sample_size and drew a
\* sample
Sampled ==
    /\ mode = "sample"
    /\ sample_size # None
    /\ ended # "raised"
    /\ total_lines > sample_size[1]

\* the indices of the lines the second pass has read
LinesRead == 0..(Min({line_num, Len(file.lines)}) - 1)

\* line i was given to parse_log_to_dict
WasParsed(i) == \E j \in 1..Len(parsed_lines) : parsed_lines[j] = i

\* C22: when the estimate exceeds sample_size, exactly sample_size distinct
\* indices below the estimate are drawn; the file is read once from its
\* first line on, a line being given to the parser exactly when its index
\* was drawn; a call that returns has rows + errors equal to the number of
\* drawn indices below the line count, which is at most sample_size; the
\* indices drawn beyond the end of the file count as no error.
C22_SampleParsesExactlyDrawnLines ==
    Sampled =>
        /\ drawn = sample_size[1]
        /\ sample_set \subseteq 0..(total_lines - 1)
        /\ Cardinality(sample_set) <= drawn
        /\ drawn - Cardinality(sample_set) <= total_lines - Min({Len(file.lines), total_lines})
        /\ \A j \in 1..(Len(parsed_lines) - 1) : parsed_lines[j] < parsed_lines[j + 1]
        /\ \A i \in LinesRead : WasParsed(i) <=> i \in sample_set
        /\ \A j \in 1..Len(parsed_lines) : parsed_lines[j] \in LinesRead
        /\ Len(datos) + errores = Cardinality(sample_set \cap LinesRead)
        /\ errores = Cardinality(ParsedAmong(UnparseableLines))
        /\ (pc = "done" /\ ended = "returned") =>
               /\ LinesRead = 0..(Len(file.lines) - 1)
               /\ Len(retval[1][1].rows) + retval[1][2]
                      = Cardinality({i \in sample_set : i < Len(file.lines)})
               /\ Len(retval[1][1].rows) + retval[1][2] <= sample_size[1]

C22_Witness ==
    /\ Sampled
    /\ pc = "done"
    /\ ended = "returned"
    /\ Len(file.lines) = 3
    /\ total_lines = 3
    /\ sample_set = {0, 2}
    /\ parsed_lines = <<0, 2>>
    /\ file.lines[1] \in ParseableLines
    /\ file.lines[3] \in UnparseableLines
    /\ Len(retval[1][1].rows) = 1
    /\ retval[1][2] = 1

\* a sample with an index beyond the end of the file: fewer lines than
\* sample_size are parsed and the call returns
SampledBeyondEnd ==
    /\ Sampled
    /\ pc = "done"
    /\ ended = "returned"
    /\ drawn > Cardinality(sample_set)
    /\ Len(file.lines) = 1
    /\ parsed_lines = <<0>>
    /\ retval[1][2] = 0

\* crear_dataframe_sample has made its estimate
Estimated == mode = "sample" /\ ~EstimateFails(file)

\* the number of characters file.read(100000) returned
PrefixRead(f) == Min({FileSize(f), SampleBytes})

\* every line of the file has the same number of characters
UniformLines(f) ==
    \A i, j \in 0..(Len(f.lines) - 1) : CharsOf(f, i) = CharsOf(f, j)

\* C23: the estimate is the file size divided by the size of the prefix
\* that was read and multiplied by the newlines counted in it, truncated;
\* for a file of lines of one length it is within one of the line count.
C23_EstimateScalesPrefixRead ==
    (Estimated /\ LinesInSample(file) > 0) =>
        /\ total_lines = (FileSize(file) * LinesInSample(file)) \div PrefixRead(file)
        /\ UniformLines(file) =>
               /\ total_lines - Len(file.lines) <= 1
               /\ Len(file.lines) - total_lines <= 1

\* crear_dataframe_sample found its estimate within sample_size and handed
\* the file to crear_dataframe
Delegated ==
    /\ mode = "sample"
    /\ sample_size # None
    /\ Estimated
    /\ total_lines <= sample_size[1]

\* a crear_dataframe call, made by the caller or by crear_dataframe_sample,
\* returns what crear_dataframe as a function of the file and the limit
\* gives, whatever the chunk size and the callback
ReturnsPrefixResult ==
    (pc = "done" /\ (PrefixMode \/ Delegated)) =>
        retval \in crear_dataframe(file, max_lines)

\* C24: when the estimate is at most sample_size no index is drawn and the
\* call returns what crear_dataframe returns for the same file with
\* max_lines equal to the estimate.
C24_SmallEstimateIsPrefixIngestion ==
    Delegated =>
        /\ drawn = 0
        /\ sample_set = {}
        /\ pc # "sampling"
        /\ pc = "done" => retval \in crear_dataframe(file, Some(total_lines))

C24_Witness ==
    /\ Delegated
    /\ pc = "done"
    /\ ended = "returned"
    /\ Len(file.lines) = 3
    /\ total_lines = 2
    /\ parsed_lines = <<0, 1>>
    /\ file.lines[3] \in ParseableLines
    /\ retval[1][2] = 2

------------------------------------------------------------------------------
(* get_log_stats *)

\* df['status_code'] >= 400 with the bound left out
ErrorMask_Above(d) == [i \in 1..Len(d.rows) |-> d.rows[i].status_code > 400]

\* df['status_code'] >= 400
ErrorMask(d) == [i \in 1..Len(d.rows) |-> d.rows[i].status_code >= 400]

\* df[c].value_counts().to_dict()
ValueCounts(d, c) ==
    [v \in {d.rows[i][c] : i \in 1..Len(d.rows)} |->
        Cardinality({i \in 1..Len(d.rows) : d.rows[i][c] = v})]

\* the values of column c by position
Column(d, c) == [i \in 1..Len(d.rows) |-> d.rows[i][c]]

\* get_log_stats(df)
get_log_stats(d) ==
    IF IsEmpty(d) THEN EmptyDict
    ELSE [total_requests |-> Len(d.rows),
          unique_ips     |-> Cardinality({d.rows[i].ip : i \in 1..Len(d.rows)}),
          date_range     |-> <<Min({d.rows[i].date : i \in 1..Len(d.rows)}),
                               Max({d.rows[i].date : i \in 1..Len(d.rows)})>>,
          status_codes   |-> ValueCounts(d, "status_code"),
          methods        |-> ValueCounts(d, "method"),
          total_size     |-> SumOver(Column(d, "size"), 1..Len(d.rows)),
          avg_size       |-> Mean(Column(d, "size"), 1..Len(d.rows)),
          errors         |-> Len(Select(d, ErrorMask(d)).rows)]

StatColumns == {"date", "ip", "method", "status_code", "size"}

\* the requests a table given to get_log_stats is made of
StatRows ==
    { [ip |-> "10.0.0.1", date |-> 20234, method |-> "GET", status_code |-> 200, size |-> 512],
      [ip |-> "10.0.0.1", date |-> 20235, method |-> "POST", status_code |-> 399, size |-> 0],
      [ip |-> "10.0.0.2", date |-> 20234, method |-> "GET", status_code |-> 400, size |-> 0],
      [ip |-> "10.0.0.2", date |-> 20235, method |-> "GET", status_code |-> 404, size |-> 100],
      [ip |-> "203.0.113.5", date |-> 20233, method |-> "-", status_code |-> 0, size |-> 7],
      [ip |-> "203.0.113.5", date |-> 20236, method |-> "POST", status_code |-> 500, size |-> 512] }

\* pd.DataFrame(), and the tables of up to MaxRows requests
StatTables ==
    {EmptyDataFrame}
    \cup {[columns |-> StatColumns, rows |-> rs] :
             rs \in UNION {[1..n -> StatRows] : n \in 0..MaxRows}}

InitStats ==
    /\ df \in StatTables
    /\ src = df
    /\ timeout = 30
    /\ exclude = TRUE
    /\ removed = 0
    /\ agent = None
    /\ verdict = FALSE
    /\ prev = EmptyDataFrame
    /\ stats = EmptyDict
    /\ applied = 0
    /\ ParserIdle
    /\ IngestIdle
    /\ pc = "loaded"

\* stats = get_log_stats(df)
GetLogStats ==
    /\ pc = "loaded"
    /\ stats' = get_log_stats(df)
    /\ pc' = "stats"
    /\ UNCHANGED <<df, src, timeout, prev, applied, botVars, parseVars, ingestVars>>

NextStats == GetLogStats

SpecStats == InitStats /\ [][NextStats]_vars

\* C25: get_log_stats of an empty table is the empty dict; of a table with
\* rows its total_requests is the number of rows and its errors the number
\* of rows whose status_code is 400 or more, which the histogram of status
\* codes bears out, so errors is at most total_requests.
C25_LogStatsCountsRowsAndErrors ==
    pc = "stats" =>
        /\ IsEmpty(df) => stats = EmptyDict
        /\ ~IsEmpty(df) =>
               /\ stats.total_requests = Len(df.rows)
               /\ stats.errors
                      = Cardinality({i \in 1..Len(df.rows) : df.rows[i].status_code >= 400})
               /\ stats.errors
                      = SumOver(stats.status_codes,
                                {c \in DOMAIN stats.status_codes : c >= 400})
               /\ stats.total_requests
                      = SumOver(stats.status_codes, DOMAIN stats.status_codes)
               /\ stats.errors <= stats.total_requests

C25_Witness ==
    /\ pc = "stats"
    /\ Len(df.rows) = 3
    /\ stats # EmptyDict
    /\ stats.total_requests = 3
    /\ stats.errors = 2
    /\ 399 \in DOMAIN stats.status_codes
    /\ 400 \in DOMAIN stats.status_codes

\* the empty case: a table without rows gives the empty dict
EmptyStats ==
    /\ pc = "stats"
    /\ df.columns = StatColumns
    /\ df.rows = <<>>
    /\ stats = EmptyDict

------------------------------------------------------------------------------
(* filter_bots and create_sessions on table objects.  A call's memory is    *)
(* the objects it can reach, each holding a table, and the names bound to   *)
(* them; the caller's table is the object the parameter df is bound to.     *)
(* `.copy()` and `sort_values` make a new object, `x[c] = v` writes into    *)
(* the object x is bound to, and `return x` hands that object back.         *)

Memory(names, objects) == [names |-> names, objects |-> objects]

\* the memory at the start of a call whose argument holds the table d
Passed(d) == Memory("df" :> 1, 1 :> d)

\* the table held by the object `name` is bound to
ValueOf(m, name) == m.objects[m.names[name]]

\* name = <a new object holding d>
BindNew(m, name, d) ==
    Memory((name :> Cardinality(DOMAIN m.objects) + 1) @@ m.names,
           (Cardinality(DOMAIN m.objects) + 1 :> d) @@ m.objects)

\* name = other: one more name for the object of `other`
BindSame(m, name, other) ==
    Memory((name :> m.names[other]) @@ m.names, m.objects)

\* a write into the object `name` is bound to, which then holds d
Store(m, name, d) ==
    Memory(m.names, [m.objects EXCEPT ![m.names[name]] = d])

\* df.sort(...) in place and df_sorted = df: no new object
SortedCopy_InPlace(m) ==
    BindSame(Store(m, "df", SortValues(ValueOf(m, "df"))), "df_sorted", "df")

\* df_sorted = df.sort_values(['ip', 'timestamp']).copy()
SortedCopy(m) == BindNew(m, "df_sorted", SortValues(ValueOf(m, "df")))

\* the assignments df_sorted['time_diff'] = ..., df_sorted['new_session'] =
\* ..., df_sorted['session_id'] = ... (twice)
AssignSessionColumns(m, t) ==
    Store(m, "df_sorted",
          WithSessionId(WithSessionSeq(WithNewSession(
              WithTimeDiff(ValueOf(m, "df_sorted")), t))))

\* create_sessions(df, session_timeout_minutes) as it acts on the memory
create_sessions_call(m, t) ==
    IF IsEmpty(ValueOf(m, "df")) THEN BindSame(m, "return", "df")
    ELSE BindSame(AssignSessionColumns(SortedCopy(m), t), "return", "df_sorted")

\* filter_bots(df, exclude_bots) as it acts on the memory; the table it
\* returns is df_filtered = df[~bot_mask].copy() or df itself
filter_bots_call(m, exclude_bots) ==
    IF exclude_bots /\ "user_agent" \in ValueOf(m, "df").columns
    THEN BindSame(BindNew(m, "df_filtered", filter_bots(ValueOf(m, "df"), exclude_bots)[1]),
                  "return", "df_filtered")
    ELSE BindSame(m, "return", "df")

\* requests of one ip at two instants and of another at one, by a crawler
\* or by a browser
DeriveRows ==
    {<<IPOrder[1], 0>>, <<IPOrder[1], 2700>>, <<IPOrder[2], 0>>}
        \X {Some(UA_Googlebot), Some(UA_Windows)}

\* the table of the records f[1], f[2], ...; f[i] is ((ip, timestamp), user agent)
DeriveTableOf(f) ==
    [columns |-> BaseColumns,
     rows    |-> [i \in DOMAIN f |-> Record(i - 1, f[i][1][1], f[i][1][2], f[i][2])]]

InitDerive ==
    /\ \/ df = EmptyDataFrame
       \/ \E n \in 0..MaxRows : \E f \in [1..n -> DeriveRows] : df = DeriveTableOf(f)
    /\ src = df
    /\ timeout \in Timeouts
    /\ exclude \in BOOLEAN
    /\ removed = 0
    /\ agent = None
    /\ verdict = FALSE
    /\ prev = EmptyDataFrame
    /\ stats = EmptyDict
    /\ applied = 0
    /\ ParserIdle
    /\ IngestIdle
    /\ pc = "loaded"

\* the end of a call that leaves the memory m: df is bound to the table
\* returned, prev is what the argument holds now
CallReturns(m) ==
    /\ df' = ValueOf(m, "return")
    /\ prev' = ValueOf(m, "df")

\* df, bots = filter_bots(df, exclude_bots=exclude)
FilterBotsCall ==
    /\ pc = "loaded"
    /\ CallReturns(filter_bots_call(Passed(df), exclude))
    /\ removed' = filter_bots(df, exclude)[2]
    /\ pc' = "filtered"
    /\ UNCHANGED <<src, timeout, stats, applied, exclude, agent, verdict,
                   parseVars, ingestVars>>

\* df = create_sessions(df, session_timeout_minutes=timeout)
CreateSessionsCall ==
    /\ pc \in {"loaded", "filtered"}
    /\ CallReturns(create_sessions_call(Passed(df), timeout))
    /\ applied' = applied + 1
    /\ pc' = "sessions"
    /\ UNCHANGED <<src, timeout, stats, botVars, parseVars, ingestVars>>

NextDerive == FilterBotsCall \/ CreateSessionsCall

SpecDerive == InitDerive /\ [][NextDerive]_vars

\* what the calls return is what filter_bots and create_sessions as
\* functions of the table give
CallsReturnFunctionValues ==
    [][/\ pc' = "filtered" => df' = filter_bots(df, exclude)[1]
       /\ pc' = "sessions" => df' = create_sessions(df, timeout)]_vars

SessionColumns == {"time_diff", "new_session", "session_id"}

\* C26: when filter_bots or create_sessions returns, the table passed to it
\* holds the rows, in the order, and the columns it held when it was
\* passed; no session column has been added to it.
C26_SourceNotMutated ==
    [][pc' # pc =>
           /\ prev' = df
           /\ prev'.columns \cap SessionColumns = df.columns \cap SessionColumns]_vars

C26_Witness ==
    /\ pc = "sessions"
    /\ applied = 1
    /\ removed = 1
    /\ Len(prev.rows) = 2
    /\ prev.rows # SortRows(prev.rows)
    /\ "session_id" \notin prev.columns
    /\ "session_id" \in df.columns
    /\ df.rows = SortRows(df.rows)

------------------------------------------------------------------------------
(* Session numbering *)

\* the sequence number of the session of row i: the session-start marks of
\* its ip counted up to it
SeqAt(i) == CumSum(df.rows, i)

\* C29: within one ip the sequence numbers start at 1 and go up by one at
\* each row marked new_session and nowhere else; session_id is the ip, "_"
\* and the number, and two rows have the same session_id exactly when they
\* have the same ip and the same number, also for an ip that ends in "_1".
C29_SessionNumberingInjective ==
    Annotated =>
        /\ \A i \in Positions(df) :
               IF FirstOfIp(df, i) THEN SeqAt(i) = 1
               ELSE SeqAt(i) = SeqAt(i - 1) + (IF df.rows[i].new_session THEN 1 ELSE 0)
        /\ \A i \in Positions(df) :
               df.rows[i].session_id = df.rows[i].ip \o "_" \o ToString(SeqAt(i))
        /\ \A i, j \in Positions(df) :
               df.rows[i].session_id = df.rows[j].session_id
                   <=> (df.rows[i].ip = df.rows[j].ip /\ SeqAt(i) = SeqAt(j))

C29_Witness ==
    /\ Annotated
    /\ RowCount(df) = 3
    /\ df.rows[1].ip = "10.0.0.1" /\ df.rows[1].session_id = "10.0.0.1_1"
    /\ df.rows[2].ip = "10.0.0.1" /\ df.rows[2].session_id = "10.0.0.1_2"
    /\ df.rows[3].ip = "10.0.0.1_1" /\ df.rows[3].session_id = "10.0.0.1_1_1"

------------------------------------------------------------------------------
(* Chunks and the progress callback *)

\* crear_dataframe is running or has run, called by the caller or by
\* crear_dataframe_sample
InCrearDataframe == PrefixMode \/ Delegated

RECURSIVE RecordsOf(_, _)
\* the records of the lines of f at the indices ls that parse, in the order
\* of ls
RecordsOf(f, ls) ==
    IF ls = <<>> THEN <<>>
    ELSE (IF ParsedLine[LineAt(f, Head(ls))] # None
          THEN <<ParsedLine[LineAt(f, Head(ls))][1]>>
          ELSE <<>>) \o RecordsOf(f, Tail(ls))

\* C27: between two turns of the loop the result list followed by the chunk
\* buffer is the sequence of the records parsed so far, in file order; for
\* chunk_size >= 1 the buffer holds at most chunk_size records; when the
\* loop is over the result list is that sequence, each record once,
\* whatever chunk_size is.
C27_ChunksKeepEveryRecord ==
    InCrearDataframe =>
        /\ \A j \in 1..Len(parsed_lines) : parsed_lines[j] = j - 1
        /\ pc = "reading" =>
               /\ datos \o chunk_datos = RecordsOf(file, parsed_lines)
               /\ chunk_size >= 1 => Len(chunk_datos) <= chunk_size
        /\ ReadToEnd =>
               /\ datos = RecordsOf(file, parsed_lines)
               /\ Len(datos) = lineas_exitosas

C27_Witness ==
    /\ PrefixMode
    /\ ReadToEnd
    /\ chunk_size = 2
    /\ Len(file.lines) = 3
    /\ \A i \in 1..3 : file.lines[i] \in ParseableLines
    /\ file.lines[1] # file.lines[2]
    /\ Len(datos) = 3
    /\ Len(chunk_datos) = 1
    /\ datos[3] = chunk_datos[1]

\* a chunk was moved and the next one is being filled
ChunkMoved ==
    /\ PrefixMode
    /\ pc = "reading"
    /\ chunk_size = 2
    /\ Len(datos) = 2
    /\ chunk_datos = <<>>
    /\ lineas_procesadas = 3

\* the calls of the progress callback made so far are well-formed: each
\* fraction lies in [0, 1] and the counts go up strictly
CallsInRange ==
    /\ \A k \in 1..Len(calls) :
           /\ calls[k][1][2] > 0
           /\ 0 <= calls[k][1][1]
           /\ calls[k][1][1] <= calls[k][1][2]
    /\ \A k \in 1..(Len(calls) - 1) : calls[k][2] < calls[k + 1][2]

\* a call of the progress callback is made at the end of a turn that moved
\* the chunk to the result list, with the number of lines processed up to
\* and including that turn's line
CalledAtFlush ==
    calls' # calls =>
        /\ progress_callback
        /\ Len(calls') = Len(calls) + 1
        /\ calls'[Len(calls')][2] = lineas_procesadas'
        /\ lineas_procesadas' = Len(parsed_lines')
        /\ lineas_procesadas' = line_num'
        /\ chunk_datos' = <<>>
        /\ datos' = RecordsOf(file, parsed_lines')
        /\ Len(datos') - Len(datos) >= chunk_size

\* C28: every call of the progress callback passes a fraction in [0, 1] and
\* the number of lines processed so far; calls are made only when a chunk
\* is moved to the result list; the count passed goes up strictly from call
\* to call; and the table and error count returned are those of
\* crear_dataframe as a function of the file and the limit, with or without
\* a callback.
C28_ProgressCallback ==
    /\ [](InCrearDataframe => CallsInRange)
    /\ [][CalledAtFlush]_vars
    /\ []((InCrearDataframe /\ pc = "done") => retval \in crear_dataframe(file, max_lines))
    /\ [](~progress_callback => calls = <<>>)

C28_Witness ==
    /\ PrefixMode
    /\ progress_callback
    /\ ReadToEnd
    /\ ended = "returned"
    /\ chunk_size = 1
    /\ max_lines = Some(3)
    /\ Len(file.lines) = 3
    /\ file.lines[2] \in UnparseableLines
    /\ calls = << <<<<0, 3>>, 1>>, <<<<2, 3>>, 3>> >>
    /\ Len(retval[1][1].rows) = 2

------------------------------------------------------------------------------
(* Sample mode on small files *)

\* crear_dataframe_sample was given a readable file that fits inside the
\* estimation prefix, with a sample_size of at least its number of lines
WholeFileRequested ==
    /\ mode = "sample"
    /\ sample_size # None
    /\ file.fault = "none"
    /\ FileSize(file) < SampleBytes
    /\ sample_size[1] >= Len(file.lines)

\* C30: for a readable file shorter than the estimation prefix and a
\* sample_size of at least its number of lines, a call that returns has
\* given every line to the parser, and rows + errors is the number of lines.
C30_SmallFileFullyIngested ==
    (WholeFileRequested /\ pc = "done" /\ ended = "returned") =>
        /\ \A i \in 0..(Len(file.lines) - 1) : WasParsed(i)
        /\ Len(retval[1][1].rows) + retval[1][2] = Len(file.lines)

====
